---- MODULE Spec2Model ----
(***************************************************************************)
(* A model of mdr (rmdp), a terminal RSVP reader for markdown:             *)
(*   - the ORP calculator            (src/src/orp.ts)                      *)
(*   - the document builder          (src/src/parser.ts, ParseContext)     *)
(*   - the playback engine           (useRsvp hook)                        *)
(*   - the navigation synchronizer   (useDocument hook)                    *)
(*   - the effects of App that wire the two hooks together (src/src/app.tsx)*)
(*                                                                         *)
(* Pause multipliers are kept as integers, hundred times the source's      *)
(* floating point values (1.15 is 115).  A word is a tuple of characters.  *)
(***************************************************************************)
EXTENDS Integers, Sequences, FiniteSets, TLC

VARIABLES
    ctx,                    \* the ParseContext (sections, blocks, frames, ...)
    phase,                  \* "walk" | "finalized" : position of parseDocument
    ntok,                   \* number of top-level tokens walked so far
    lastOp,                 \* name and input of the last operation
    frameIndex,             \* useRsvp state
    wpm,                    \* useRsvp state
    playing,                \* useRsvp state
    activeSectionId,        \* useDocument state
    activeVisualBlockIndex, \* useDocument state
    pinned,                 \* useDocument state
    prevSectionIdRef,       \* App: ref of the section-boundary pause effect
    timers,                 \* the host's pending setTimeout callbacks
    timer                   \* the handle the timer effect's cleanup clears ({} if none)

vars == <<ctx, phase, ntok, lastOp, frameIndex, wpm, playing, activeSectionId,
          activeVisualBlockIndex, pinned, prevSectionIdRef, timers, timer>>

buildVars == <<ctx, phase, ntok>>
appVars == <<frameIndex, wpm, playing, activeSectionId, activeVisualBlockIndex,
             pinned, prevSectionIdRef, timers, timer>>

----------------------------------------------------------------------------
(* Generic helpers                                                         *)

Op(name, arg) == [op |-> name, arg |-> arg]

Max(a, b) == IF a >= b THEN a ELSE b
Min(a, b) == IF a <= b THEN a ELSE b
Last(s) == s[Len(s)]
Front(s) == SubSeq(s, 1, Len(s) - 1)
Range(s) == {s[i] : i \in 1..Len(s)}
\* the element of a singleton: Only({e}) evaluates e once
Only(S) == CHOOSE x \in S : TRUE

RECURSIVE SelectSeqIds(_, _)
\* the subsequence of s whose elements are not x (Array.prototype.filter)
SelectSeqIds(s, x) ==
    IF s = <<>> THEN <<>>
    ELSE IF s[1] = x THEN SelectSeqIds(Tail(s), x)
         ELSE <<s[1]>> \o SelectSeqIds(Tail(s), x)

----------------------------------------------------------------------------
(* ORP calculator: src/src/orp.ts                                          *)

\* the characters of the TRAILING_PUNCT class; multi-byte ones carry a name
TRAILING_PUNCT ==
    {".", ",", ";", ":", "!", "?", "-", "ndash", "mdash", "hellip",
     "dquote", "'", "raquo", ")", "}", "]"}

\* faulty variant of stripTrailingPunctuation: the character class without
\* its +, so that one character at most is removed
stripOneTrailingPunctuation(word) ==
    IF word # <<>> /\ Last(word) \in TRAILING_PUNCT THEN Front(word) ELSE word

RECURSIVE stripTrailingPunctuation(_)
stripTrailingPunctuation(word) ==
    IF word # <<>> /\ Last(word) \in TRAILING_PUNCT
    THEN stripTrailingPunctuation(Front(word))
    ELSE word

\* faulty variant of getOrpIndex: the tiers on the raw word's length
getOrpIndexRaw(word) ==
    LET n == Len(word)
    IN  IF n <= 1 THEN 0
        ELSE IF n <= 5 THEN 1
        ELSE IF n <= 9 THEN 2
        ELSE IF n <= 13 THEN 3
        ELSE 4

getOrpIndex(word) ==
    LET n == Len(stripTrailingPunctuation(word))
    IN  IF n <= 1 THEN 0
        ELSE IF n <= 5 THEN 1
        ELSE IF n <= 9 THEN 2
        ELSE IF n <= 13 THEN 3
        ELSE 4

EndsIn(word, chars) == word # <<>> /\ Last(word) \in chars

\* faulty variant of computePauseMultiplier: the bonuses of the rules are
\* added up
computePauseMultiplierSum(word, isHeading, isInlineCode, isEndOfParagraph) ==
    LET n == Len(stripTrailingPunctuation(word))
    IN  100
        + (IF isEndOfParagraph THEN 150 ELSE 0)
        + (IF EndsIn(word, {".", "!", "?"}) THEN 100
           ELSE IF EndsIn(word, {",", ";", ":"}) THEN 40
           ELSE IF EndsIn(word, {"ndash", "mdash"}) THEN 50
           ELSE 0)
        + (IF isHeading THEN 80 ELSE 0)
        + (IF isInlineCode THEN 40 ELSE 0)
        + (IF n > 12 THEN 30 ELSE IF n > 8 THEN 15 ELSE 0)

computePauseMultiplier(word, isHeading, isInlineCode, isEndOfParagraph) ==
    LET m0 == 100
        m1 == IF isEndOfParagraph THEN Max(m0, 250) ELSE m0
        m2 == IF EndsIn(word, {".", "!", "?"}) THEN Max(m1, 200)
              ELSE IF EndsIn(word, {",", ";", ":"}) THEN Max(m1, 140)
              ELSE IF EndsIn(word, {"ndash", "mdash"}) THEN Max(m1, 150)
              ELSE m1
        m3 == IF isHeading THEN Max(m2, 180) ELSE m2
        m4 == IF isInlineCode THEN Max(m3, 140) ELSE m3
        n  == Len(stripTrailingPunctuation(word))
    IN  IF n > 12 THEN Max(m4, 130)
        ELSE IF n > 8 THEN Max(m4, 115)
        ELSE m4

----------------------------------------------------------------------------
(* Document builder: src/src/parser.ts, class ParseContext                 *)
(*                                                                         *)
(* Section objects are shared by reference between sections, flatSections, *)
(* children and the section stack; the model keeps them in ctx.arena       *)
(* (section id i is arena[i + 1]) and the lists hold ids.                  *)

DEFAULT_FMT ==
    [bold |-> FALSE, italic |-> FALSE, inlineCode |-> FALSE,
     heading |-> FALSE, headingDepth |-> 0]

\* listInfo === undefined
NoList == [type |-> "none", index |-> -1, depth |-> -1]

Sec(c, id) == c.arena[id + 1]

makeSection(c, level, title, parentId) ==
    LET s == [id |-> c.nextSectionId, level |-> level, title |-> title,
              children |-> <<>>, parentId |-> parentId, blockIds |-> <<>>,
              frameStart |-> -1, frameEnd |-> -1]
    IN  [c EXCEPT !.nextSectionId = @ + 1,
                  !.arena = Append(@, s),
                  !.flatSections = Append(@, s.id)]

\* new ParseContext(source)
NewParseContext ==
    makeSection(
        [sections |-> <<>>, flatSections |-> <<>>, arena |-> <<>>,
         blocks |-> <<>>, frames |-> <<>>,
         nextSectionId |-> 0, nextBlockId |-> 0,
         sectionStack |-> <<>>, preambleSection |-> 0],
        0, <<"(preamble)">>, -1)

currentSection(c) ==
    IF Len(c.sectionStack) > 0 THEN Last(c.sectionStack) ELSE c.preambleSection

RECURSIVE PopSectionsDeeper(_, _, _)
\* faulty variant of PopSections: only the strictly deeper sections are popped
PopSectionsDeeper(c, stack, level) ==
    IF Len(stack) > 0 /\ Sec(c, Last(stack)).level > level
    THEN PopSectionsDeeper(c, Front(stack), level)
    ELSE stack

RECURSIVE PopSections(_, _, _)
\* the while loop of openSection: pop sections of the same or a deeper level
PopSections(c, stack, level) ==
    IF Len(stack) > 0 /\ Sec(c, Last(stack)).level >= level
    THEN PopSections(c, Front(stack), level)
    ELSE stack

openSection(c, level, title) ==
    LET stack  == PopSections(c, c.sectionStack, level)
        c0     == [c EXCEPT !.sectionStack = stack]
        parent == currentSection(c0)
        id     == c0.nextSectionId
        c1     == makeSection(c0, level, title, parent)
        c2     == IF Len(stack) = 0 /\ parent = c.preambleSection
                  THEN [c1 EXCEPT !.sections = Append(@, id)]
                  ELSE IF parent # c.preambleSection
                  THEN [c1 EXCEPT !.arena[parent + 1].children = Append(@, id)]
                  ELSE [c1 EXCEPT !.sections = Append(@, id)]
    IN  [c2 EXCEPT !.sectionStack = Append(@, id)]

\* the block addBlock returns has id c.nextBlockId and sits at blocks[id + 1]
addBlock(c, type, language) ==
    LET section == currentSection(c)
        block == [id |-> c.nextBlockId, type |-> type, sectionId |-> section,
                  language |-> language,
                  frameStart |-> Len(c.frames), frameEnd |-> -1]
    IN  [c EXCEPT !.nextBlockId = @ + 1,
                  !.blocks = Append(@, block),
                  !.arena[section + 1].blockIds = Append(@, block.id)]

\* faulty variant of NewFrameIndex: one-based indices
NewFrameIndexOneBased(frames) == Len(frames) + 1

NewFrameIndex(frames) == Len(frames)

addFrame(c, word, blockId, sectionId, fmt, isEndOfParagraph, listInfo) ==
    IF word = <<>> THEN c
    ELSE
      LET frame ==
            [index |-> NewFrameIndex(c.frames),
             word |-> word,
             sectionId |-> sectionId,
             blockId |-> blockId,
             orpIndex |-> getOrpIndex(word),
             bold |-> fmt.bold,
             italic |-> fmt.italic,
             inlineCode |-> fmt.inlineCode,
             heading |-> fmt.heading,
             headingDepth |-> fmt.headingDepth,
             isListItem |-> listInfo # NoList,
             listType |-> listInfo.type,
             listItemIndex |-> listInfo.index,
             listDepth |-> listInfo.depth,
             pauseMultiplier |->
                 computePauseMultiplier(word, fmt.heading, fmt.inlineCode,
                                        isEndOfParagraph)]
      IN [c EXCEPT !.frames = Append(@, frame)]

RECURSIVE addWords(_, _, _, _, _, _)
\* for (const w of words) this.addFrame(w, blockId, sectionId, fmt, false, listInfo)
addWords(c, words, blockId, sectionId, fmt, listInfo) ==
    IF words = <<>> THEN c
    ELSE addWords(addFrame(c, words[1], blockId, sectionId, fmt, FALSE, listInfo),
                  Tail(words), blockId, sectionId, fmt, listInfo)

\* frames[frames.length - 1].pauseMultiplier = Math.max(.., floor), if any frame
\* faulty variant of raiseLastPause: assignment of the floor, no Math.max
raiseLastPauseTo(c, floor) ==
    IF Len(c.frames) > 0
    THEN [c EXCEPT !.frames[Len(c.frames)].pauseMultiplier = floor]
    ELSE c

raiseLastPause(c, floor) ==
    IF Len(c.frames) > 0
    THEN [c EXCEPT !.frames[Len(c.frames)].pauseMultiplier = Max(@, floor)]
    ELSE c

----------------------------------------------------------------------------
(* Inline tokens.  An inline token is [type, words, tokens]: words is the  *)
(* token's text split on whitespace (for a codespan: its text as one       *)
(* unit), tokens its nested inline tokens.                                 *)

RECURSIVE walkInlineTokens(_, _, _, _, _, _)
RECURSIVE walkInlineToken(_, _, _, _, _, _)

walkInlineToken(c, token, blockId, sectionId, fmt, listInfo) ==
    CASE token.type = "text" ->
           IF Len(token.tokens) > 0
           THEN walkInlineTokens(c, token.tokens, blockId, sectionId, fmt, listInfo)
           ELSE addWords(c, token.words, blockId, sectionId, fmt, listInfo)
      [] token.type = "strong" ->
           walkInlineTokens(c, token.tokens, blockId, sectionId,
                            [fmt EXCEPT !.bold = TRUE], listInfo)
      [] token.type = "em" ->
           walkInlineTokens(c, token.tokens, blockId, sectionId,
                            [fmt EXCEPT !.italic = TRUE], listInfo)
      [] token.type = "codespan" ->
           \* kept as a single frame: the text is not split on spaces
           IF token.words = <<>> THEN c
           ELSE addFrame(c, token.words[1], blockId, sectionId,
                         [fmt EXCEPT !.inlineCode = TRUE], FALSE, listInfo)
      [] token.type = "link" ->
           walkInlineTokens(c, token.tokens, blockId, sectionId, fmt, listInfo)
      [] token.type = "image" ->
           addWords(c, token.words, blockId, sectionId,
                    [fmt EXCEPT !.italic = TRUE], listInfo)
      [] token.type = "br" -> raiseLastPause(c, 200)
      [] token.type = "del" ->
           walkInlineTokens(c, token.tokens, blockId, sectionId,
                            [fmt EXCEPT !.italic = TRUE], listInfo)
      [] token.type = "escape" ->
           IF token.words = <<>> THEN c
           ELSE addFrame(c, token.words[1], blockId, sectionId, fmt, FALSE, listInfo)
      [] OTHER ->
           walkInlineTokens(
               addWords(c, token.words, blockId, sectionId, fmt, listInfo),
               token.tokens, blockId, sectionId, fmt, listInfo)

walkInlineTokens(c, tokens, blockId, sectionId, fmt, listInfo) ==
    IF tokens = <<>> THEN c
    ELSE walkInlineTokens(
             walkInlineToken(c, tokens[1], blockId, sectionId, fmt, listInfo),
             Tail(tokens), blockId, sectionId, fmt, listInfo)

(* Lists.  A list is [ordered, items]; an item is the sequence of its      *)
(* tokens, each [type, tokens, list]: "text"/"paragraph" carry inline      *)
(* tokens, "list" carries a nested list.                                   *)

RECURSIVE walkList(_, _, _, _, _)
RECURSIVE walkListItems(_, _, _, _, _, _, _)
RECURSIVE walkListItemTokens(_, _, _, _, _, _)
RECURSIVE walkListItemTokensNoPause(_, _, _, _, _, _)

\* faulty variant of walkListItemTokens: no end-of-item pause
walkListItemTokensNoPause(c, tokens, listInfo, depth, blockId, sectionId) ==
    IF tokens = <<>> THEN c
    ELSE
      LET token == tokens[1]
          c1 == IF token.type \in {"text", "paragraph"}
                THEN walkInlineTokens(c, token.tokens, blockId, sectionId,
                                      DEFAULT_FMT, listInfo)
                ELSE IF token.type = "list"
                THEN walkList(c, token.list, blockId, sectionId, depth + 1)
                ELSE c
      IN walkListItemTokensNoPause(c1, Tail(tokens), listInfo, depth, blockId,
                                   sectionId)

\* the body of walkListItem: for (const token of item.tokens)
walkListItemTokens(c, tokens, listInfo, depth, blockId, sectionId) ==
    IF tokens = <<>> THEN c
    ELSE
      LET token == tokens[1]
          c1 == IF token.type \in {"text", "paragraph"}
                THEN raiseLastPause(
                         walkInlineTokens(c, token.tokens, blockId, sectionId,
                                          DEFAULT_FMT, listInfo),
                         200)
                ELSE IF token.type = "list"
                THEN walkList(c, token.list, blockId, sectionId, depth + 1)
                ELSE c
      IN walkListItemTokens(c1, Tail(tokens), listInfo, depth, blockId, sectionId)

walkListItem(c, item, index, type, depth, blockId, sectionId) ==
    walkListItemTokens(c, item, [type |-> type, index |-> index, depth |-> depth],
                       depth, blockId, sectionId)

\* t.items.forEach((item, index) => walkListItem(...)), from the zero-based index
walkListItems(c, items, index, type, depth, blockId, sectionId) ==
    IF items = <<>> THEN c
    ELSE walkListItems(
             walkListItem(c, items[1], index, type, depth, blockId, sectionId),
             Tail(items), index + 1, type, depth, blockId, sectionId)

walkList(c, t, blockId, sectionId, depth) ==
    walkListItems(c, t.items, 0, IF t.ordered THEN "ordered" ELSE "bullet",
                  depth, blockId, sectionId)

----------------------------------------------------------------------------
(* Top-level tokens: the cases of walkTopLevel.  A top-level token is      *)
(* [type, depth, words, tokens, lang, list, cells]: words is its text      *)
(* split on whitespace, tokens its inline tokens (for a blockquote: its    *)
(* inner block tokens), cells the token lists of a table's header cells    *)
(* followed by those of its data cells.                                    *)

setFrameEnd(c, blockId, v) == [c EXCEPT !.blocks[blockId + 1].frameEnd = v]

walkHeading(c, t) ==
    LET c1 == openSection(c, t.depth, t.words)
        section == currentSection(c1)
        blockId == c1.nextBlockId
        c2 == addBlock(c1, "heading", "")
        headingFmt == [DEFAULT_FMT EXCEPT !.bold = TRUE, !.heading = TRUE,
                                          !.headingDepth = t.depth]
        c3 == IF Len(t.tokens) > 0
              THEN walkInlineTokens(c2, t.tokens, blockId, section, headingFmt, NoList)
              ELSE addWords(c2, t.words, blockId, section, headingFmt, NoList)
        c4 == raiseLastPause(c3, 250)
    IN  setFrameEnd(c4, blockId, Len(c4.frames) - 1)

\* faulty variant of walkParagraph: no end-of-paragraph pause
walkParagraphNoPause(c, t) ==
    LET section == currentSection(c)
        blockId == c.nextBlockId
        c1 == addBlock(c, "prose", "")
        c2 == walkInlineTokens(c1, t.tokens, blockId, section, DEFAULT_FMT, NoList)
    IN  setFrameEnd(c2, blockId, Len(c2.frames) - 1)

walkParagraph(c, t) ==
    LET section == currentSection(c)
        blockId == c.nextBlockId
        c1 == addBlock(c, "prose", "")
        c2 == walkInlineTokens(c1, t.tokens, blockId, section, DEFAULT_FMT, NoList)
        c3 == raiseLastPause(c2, 250)
    IN  setFrameEnd(c3, blockId, Len(c3.frames) - 1)

\* faulty variant of walkCode: the block is placed on the last frame emitted
walkCodeOnLastFrame(c, t) ==
    LET isMermaid == t.lang \in {"mermaid", "mmd"}
        blockId == c.nextBlockId
        c1 == addBlock(c, IF isMermaid THEN "mermaid" ELSE "code", t.lang)
    IN  [c1 EXCEPT !.blocks[blockId + 1].frameStart = Len(c1.frames) - 1,
                   !.blocks[blockId + 1].frameEnd = Len(c1.frames) - 1]

walkCode(c, t) ==
    LET isMermaid == t.lang \in {"mermaid", "mmd"}
        blockId == c.nextBlockId
        c1 == addBlock(c, IF isMermaid THEN "mermaid" ELSE "code", t.lang)
    IN  [c1 EXCEPT !.blocks[blockId + 1].frameStart = Len(c1.frames),
                   !.blocks[blockId + 1].frameEnd = Len(c1.frames)]

walkListToken(c, t) ==
    LET section == currentSection(c)
        blockId == c.nextBlockId
        c1 == addBlock(c, "list", "")
        c2 == walkList(c1, t.list, blockId, section, 0)
    IN  setFrameEnd(c2, blockId, Len(c2.frames) - 1)

RECURSIVE walkBlockquoteInner(_, _, _, _)
\* for (const innerToken of t.tokens): its inline tokens, in italic
walkBlockquoteInner(c, inner, blockId, sectionId) ==
    IF inner = <<>> THEN c
    ELSE walkBlockquoteInner(
             walkInlineTokens(c, inner[1].tokens, blockId, sectionId,
                              [DEFAULT_FMT EXCEPT !.italic = TRUE], NoList),
             Tail(inner), blockId, sectionId)

walkBlockquote(c, t) ==
    LET section == currentSection(c)
        blockId == c.nextBlockId
        c1 == addBlock(c, "blockquote", "")
        c2 == walkBlockquoteInner(c1, t.tokens, blockId, section)
        c3 == raiseLastPause(c2, 200)
    IN  setFrameEnd(c3, blockId, Len(c3.frames) - 1)

RECURSIVE walkCells(_, _, _, _)
\* the header cells (bold) and then the data cells of a table
walkCells(c, cells, blockId, sectionId) ==
    IF cells = <<>> THEN c
    ELSE walkCells(
             walkInlineTokens(c, cells[1].tokens, blockId, sectionId,
                              [DEFAULT_FMT EXCEPT !.bold = cells[1].header], NoList),
             Tail(cells), blockId, sectionId)

walkTable(c, t) ==
    LET section == currentSection(c)
        blockId == c.nextBlockId
        c1 == addBlock(c, "table", "")
        c2 == walkCells(c1, t.cells, blockId, section)
        c3 == raiseLastPause(c2, 200)
    IN  setFrameEnd(c3, blockId, Len(c3.frames) - 1)

\* faulty variant of walkHr: the end-of-paragraph floor instead of 3.0
walkHrShortPause(c, t) ==
    LET blockId == c.nextBlockId
        c1 == addBlock(c, "hr", "")
        c2 == setFrameEnd(c1, blockId, Len(c1.frames) - 1)
    IN  raiseLastPause(c2, 250)

walkHr(c, t) ==
    LET blockId == c.nextBlockId
        c1 == addBlock(c, "hr", "")
        c2 == setFrameEnd(c1, blockId, Len(c1.frames) - 1)
    IN  raiseLastPause(c2, 300)

\* t.words: the text left after the tags are removed
walkHtml(c, t) ==
    IF t.words = <<>> THEN c
    ELSE
      LET section == currentSection(c)
          blockId == c.nextBlockId
          c1 == addBlock(c, "prose", "")
          c2 == addWords(c1, t.words, blockId, section, DEFAULT_FMT, NoList)
      IN  setFrameEnd(c2, blockId, Len(c2.frames) - 1)

\* an unknown token type: best-effort text extraction
walkDefault(c, t) ==
    IF t.words = <<>> THEN c
    ELSE
      LET section == currentSection(c)
          blockId == c.nextBlockId
          c1 == addBlock(c, "prose", "")
          c2 == IF t.hasTokens
                THEN walkInlineTokens(c1, t.tokens, blockId, section, DEFAULT_FMT, NoList)
                ELSE addWords(c1, t.words, blockId, section, DEFAULT_FMT, NoList)
      IN  setFrameEnd(c2, blockId, Len(c2.frames) - 1)

\* one iteration of the loop of walkTopLevel
walkToken(c, t) ==
    CASE t.type = "heading"    -> walkHeading(c, t)
      [] t.type = "paragraph"  -> walkParagraph(c, t)
      [] t.type = "code"       -> walkCode(c, t)
      [] t.type = "list"       -> walkListToken(c, t)
      [] t.type = "blockquote" -> walkBlockquote(c, t)
      [] t.type = "table"      -> walkTable(c, t)
      [] t.type = "hr"         -> walkHr(c, t)
      [] t.type = "space"      -> c
      [] t.type = "html"       -> walkHtml(c, t)
      [] OTHER                 -> walkDefault(c, t)

RECURSIVE walkTopLevel(_, _)
walkTopLevel(c, tokens) ==
    IF tokens = <<>> THEN c
    ELSE walkTopLevel(walkToken(c, tokens[1]), Tail(tokens))

----------------------------------------------------------------------------
(* finalize and toDocument                                                 *)

RECURSIVE getDescendantIds(_, _)
\* faulty variant of getDescendantIds: the children are not walked
getDescendantIdsNone(c, id) == {}

getDescendantIds(c, id) ==
    LET kids == Range(Sec(c, id).children)
    IN  kids \cup UNION {getDescendantIds(c, k) : k \in kids}

SetMin(S) == CHOOSE x \in S : \A y \in S : x <= y
SetMax(S) == CHOOSE x \in S : \A y \in S : x >= y

\* the frame range finalize gives one section: over the index fields of the
\* frames of the section and of its descendants
sectionFrameRange(c, id) ==
    LET owners == {id} \cup getDescendantIds(c, id)
        idx == {c.frames[i].index : i \in {j \in 1..Len(c.frames) :
                                             c.frames[j].sectionId \in owners}}
    IN  [frameStart |-> IF idx = {} THEN -1 ELSE SetMin(idx),
         frameEnd   |-> IF idx = {} THEN -1 ELSE SetMax(idx)]

\* faulty variant of finalize: the preamble is kept whether it owns blocks
\* or not
finalizeKeepPreamble(c) ==
    [c EXCEPT !.arena =
                [i \in 1..Len(c.arena) |->
                    IF (i - 1) \in Range(c.flatSections)
                    THEN [c.arena[i] EXCEPT
                            !.frameStart = sectionFrameRange(c, i - 1).frameStart,
                            !.frameEnd = sectionFrameRange(c, i - 1).frameEnd]
                    ELSE c.arena[i]],
              !.sections = <<c.preambleSection>> \o @]

finalize(c) ==
    LET ranged ==
          [c EXCEPT !.arena =
              [i \in 1..Len(c.arena) |->
                  IF (i - 1) \in Range(c.flatSections)
                  THEN [c.arena[i] EXCEPT
                          !.frameStart = sectionFrameRange(c, i - 1).frameStart,
                          !.frameEnd = sectionFrameRange(c, i - 1).frameEnd]
                  ELSE c.arena[i]]]
    IN  IF Len(Sec(c, c.preambleSection).blockIds) = 0
        THEN [ranged EXCEPT !.flatSections = SelectSeqIds(@, c.preambleSection)]
        ELSE [ranged EXCEPT !.sections = <<c.preambleSection>> \o @]

\* Document.flatSections, as Section objects
FlatSections(c) == [i \in 1..Len(c.flatSections) |-> Sec(c, c.flatSections[i])]

parseDocument(tokens) == finalize(walkTopLevel(NewParseContext, tokens))

----------------------------------------------------------------------------
(* The inputs of the builder                                               *)

MaxTokens == 3      \* top-level tokens of a document
MaxDepth == 3       \* heading depths 1..MaxDepth

W_Title == <<"T", "i", "t", "l", "e">>
W_Hello == <<"H", "e", "l", "l", "o">>
W_world == <<"w", "o", "r", "l", "d", ".">>
W_code  == <<"f", "o", "o", " ", "b", "a", "r">>

Inl(type, words, tokens) == [type |-> type, words |-> words, tokens |-> tokens]
Text(words) == Inl("text", words, <<>>)

Tok(type, depth, words, tokens) ==
    [type |-> type, depth |-> depth, words |-> words, tokens |-> tokens,
     lang |-> "", list |-> <<>>, cells |-> <<>>, hasTokens |-> tokens # <<>>]

HeadingTokens ==
    {Tok("heading", d, <<W_Title>>, <<Text(<<W_Title>>)>>) : d \in 1..MaxDepth}
    \cup {Tok("heading", 2, <<>>, <<>>)}

\* "Hello world."
PlainParagraph ==
    Tok("paragraph", 0, <<W_Hello, W_world>>, <<Text(<<W_Hello, W_world>>)>>)

\* "Hello world.", "Hello<br>**world.**" and "`foo bar`"
ParagraphTokens ==
    {PlainParagraph,
     Tok("paragraph", 0, <<W_Hello, W_world>>,
         <<Text(<<W_Hello>>), Inl("br", <<>>, <<>>),
           Inl("strong", <<>>, <<Text(<<W_world>>)>>)>>),
     Tok("paragraph", 0, <<W_code>>, <<Inl("codespan", <<W_code>>, <<>>)>>)}

CodeTokens ==
    {[Tok("code", 0, <<>>, <<>>) EXCEPT !.lang = l] : l \in {"js", "mermaid"}}

\* "- Hello\n  1. world." : a bullet item holding a nested ordered list;
\* "- Hello Title\n- Title" : a two-item bullet list
ListTokens ==
    LET inner == [ordered |-> TRUE,
                  items |-> << <<[type |-> "text", tokens |-> <<Text(<<W_world>>)>>,
                                  list |-> <<>>]>> >>]
        outer == [ordered |-> FALSE,
                  items |-> << <<[type |-> "text", tokens |-> <<Text(<<W_Hello>>)>>,
                                  list |-> <<>>],
                                 [type |-> "list", tokens |-> <<>>, list |-> inner]>> >>]
        twoItems == [ordered |-> FALSE,
                     items |-> << <<[type |-> "text",
                                     tokens |-> <<Text(<<W_Hello, W_Title>>)>>,
                                     list |-> <<>>]>>,
                                  <<[type |-> "text",
                                     tokens |-> <<Text(<<W_Title>>)>>,
                                     list |-> <<>>]>> >>]
    IN  {[Tok("list", 0, <<>>, <<>>) EXCEPT !.list = outer],
         [Tok("list", 0, <<>>, <<>>) EXCEPT !.list = twoItems]}

BlockquoteTokens ==
    {Tok("blockquote", 0, <<W_Hello>>,
         <<[type |-> "paragraph", tokens |-> <<Text(<<W_Hello>>)>>]>>)}

TableTokens ==
    {[Tok("table", 0, <<>>, <<>>) EXCEPT
        !.cells = <<[header |-> TRUE, tokens |-> <<Text(<<W_Title>>)>>],
                    [header |-> FALSE, tokens |-> <<Text(<<W_world>>)>>]>>]}

HrTokens == {Tok("hr", 0, <<>>, <<>>)}
SpaceTokens == {Tok("space", 0, <<>>, <<>>)}
HtmlTokens == {Tok("html", 0, <<W_Hello>>, <<>>)}
OtherTokens == {Tok("def", 0, <<W_Hello>>, <<>>)}

----------------------------------------------------------------------------
(* The builder as a state machine: parseDocument, one top-level token at a *)
(* time, then finalize.  The application is not mounted.                   *)

NotMounted ==
    /\ frameIndex = 0 /\ wpm = 0 /\ playing = FALSE
    /\ activeSectionId = 0 /\ activeVisualBlockIndex = 0 /\ pinned = FALSE
    /\ prevSectionIdRef = 0 /\ timers = {} /\ timer = {}

InitBuild ==
    /\ ctx = NewParseContext
    /\ phase = "walk"
    /\ ntok = 0
    /\ lastOp = Op("new", 0)
    /\ NotMounted

Walk(tokens, op) ==
    /\ phase = "walk"
    /\ ntok < MaxTokens
    /\ \E t \in tokens : ctx' = walkToken(ctx, t)
    /\ ntok' = ntok + 1
    /\ lastOp' = Op(op, 0)
    /\ UNCHANGED <<phase>>
    /\ UNCHANGED appVars

WalkHeading == Walk(HeadingTokens, "heading")
WalkParagraph == Walk(ParagraphTokens, "paragraph")
WalkCode == Walk(CodeTokens, "code")
WalkList == Walk(ListTokens, "list")
WalkBlockquote == Walk(BlockquoteTokens, "blockquote")
WalkTable == Walk(TableTokens, "table")
WalkHr == Walk(HrTokens, "hr")
WalkSpace == Walk(SpaceTokens, "space")
WalkHtml == Walk(HtmlTokens, "html")
WalkOther == Walk(OtherTokens, "def")

Finalize ==
    /\ phase = "walk"
    /\ ctx' = finalize(ctx)
    /\ phase' = "finalized"
    /\ lastOp' = Op("finalize", 0)
    /\ UNCHANGED ntok
    /\ UNCHANGED appVars

NextBuild ==
    \/ WalkHeading \/ WalkParagraph \/ WalkCode \/ WalkList \/ WalkBlockquote
    \/ WalkTable \/ WalkHr \/ WalkSpace \/ WalkHtml \/ WalkOther
    \/ Finalize

SpecBuild == InitBuild /\ [][NextBuild]_vars

----------------------------------------------------------------------------
(* The application: App (src/src/app.tsx) rendering the Document held in   *)
(* ctx after finalize, with the hooks useRsvp and useDocument.             *)
(*                                                                         *)
(* JavaScript indexes from 0: frame i of the source is ctx.frames[i + 1].  *)

NoSection == -1     \* null, where the source returns a Section or null
NoBlock == -1       \* null, where the source returns a VisualBlock or null

MIN_WPM == 50
MAX_WPM == 1500
DEFAULT_WPM == 300
WPM_STEP_SMALL == 25
WPM_STEP_LARGE == 100

NFrames == Len(ctx.frames)
HasFrame(i) == i >= 0 /\ i < NFrames
\* framesRef.current[i]?.heading
IsHeading(i) == HasFrame(i) /\ ctx.frames[i + 1].heading

\* doc.flatSections.findIndex((s) => s.id === id), zero-based, -1 if absent
RECURSIVE findIndexFrom(_, _, _)
findIndexFrom(ids, id, k) ==
    IF k > Len(ids) THEN -1
    ELSE IF ids[k] = id THEN k - 1
    ELSE findIndexFrom(ids, id, k + 1)

flatIndexOf(id) == findIndexFrom(ctx.flatSections, id, 1)

\* doc.flatSections[0] ?? null
firstSection == IF Len(ctx.flatSections) > 0 THEN ctx.flatSections[1] ELSE NoSection

\* faulty variant of sectionForFrame: always the fallback
sectionForFrameFallback(f) == firstSection

sectionForFrame(f) ==
    IF ~HasFrame(f) THEN firstSection
    ELSE IF flatIndexOf(ctx.frames[f + 1].sectionId) >= 0
         THEN ctx.frames[f + 1].sectionId
         ELSE firstSection

RECURSIVE visualFrom(_, _)
\* the ids of the blocks collectVisualBlocks keeps, in document order
visualFrom(blocks, k) ==
    IF k > Len(blocks) THEN <<>>
    ELSE IF blocks[k].type \in {"code", "mermaid", "table", "list"}
         THEN <<blocks[k].id>> \o visualFrom(blocks, k + 1)
         ELSE visualFrom(blocks, k + 1)

collectVisualBlocks == visualFrom(ctx.blocks, 1)

RECURSIVE visualBlocksForSection(_, _)
visualBlocksForSection(visualBlocks, sectionId) ==
    IF visualBlocks = <<>> THEN <<>>
    ELSE IF ctx.blocks[visualBlocks[1] + 1].sectionId = sectionId
         THEN <<visualBlocks[1]>> \o visualBlocksForSection(Tail(visualBlocks), sectionId)
         ELSE visualBlocksForSection(Tail(visualBlocks), sectionId)

RECURSIVE lookAheadStrict(_, _)
\* faulty variant of lookAhead: only blocks starting strictly after f
lookAheadStrict(sectionBlocks, f) ==
    IF sectionBlocks = <<>> THEN NoBlock
    ELSE IF ctx.blocks[sectionBlocks[1] + 1].frameStart > f THEN sectionBlocks[1]
    ELSE lookAheadStrict(Tail(sectionBlocks), f)

RECURSIVE lookAhead(_, _)
\* the for loop of relevantVisualBlock: the first block starting at or after f
lookAhead(sectionBlocks, f) ==
    IF sectionBlocks = <<>> THEN NoBlock
    ELSE IF ctx.blocks[sectionBlocks[1] + 1].frameStart >= f THEN sectionBlocks[1]
    ELSE lookAhead(Tail(sectionBlocks), f)

\* faulty variant of relevantVisualBlock: past all blocks, the first one
relevantVisualBlockFirst(visualBlocks, f) ==
    IF visualBlocks = <<>> \/ ~HasFrame(f) THEN NoBlock
    ELSE
      LET sectionBlocks ==
            visualBlocksForSection(visualBlocks, ctx.frames[f + 1].sectionId)
      IN  IF sectionBlocks = <<>> THEN NoBlock
          ELSE IF lookAhead(sectionBlocks, f) # NoBlock
               THEN lookAhead(sectionBlocks, f)
               ELSE sectionBlocks[1]

relevantVisualBlock(visualBlocks, f) ==
    IF visualBlocks = <<>> \/ ~HasFrame(f) THEN NoBlock
    ELSE
      LET sectionBlocks ==
            visualBlocksForSection(visualBlocks, ctx.frames[f + 1].sectionId)
      IN  IF sectionBlocks = <<>> THEN NoBlock
          ELSE IF lookAhead(sectionBlocks, f) # NoBlock
               THEN lookAhead(sectionBlocks, f)
               ELSE Last(sectionBlocks)

----------------------------------------------------------------------------
(* Playback engine: the useRsvp hook                                       *)

RECURSIVE skipLoop(_, _)
\* the while loop of skipHeadings
skipLoop(i, direction) ==
    IF i >= 0 /\ i < NFrames /\ IsHeading(i)
    THEN skipLoop(i + direction, direction)
    ELSE i

\* faulty variant of skipHeadings: the final clamp is missing
skipHeadingsUnclamped(idx, direction) == skipLoop(idx, direction)

skipHeadings(idx, direction) ==
    Max(0, Min(skipLoop(idx, direction), NFrames - 1))

clampIndex(idx) == Max(0, Min(idx, NFrames - 1))

clampWpm(w) == Max(MIN_WPM, Min(MAX_WPM, w))

\* useState initialiser of frameIndex: skip the leading headings
RECURSIVE initialFrameIndex(_)
\* faulty variant of initialFrameIndex: frame 0 whatever it holds
initialFrameIndexZero(i) == 0

initialFrameIndex(i) ==
    IF i < NFrames - 1 /\ IsHeading(i) THEN initialFrameIndex(i + 1) ELSE i

RECURSIVE advanceLoop(_)
\* the while loop of the timer callback
advanceLoop(next) ==
    IF next < NFrames - 1 /\ IsHeading(next) THEN advanceLoop(next + 1) ELSE next

\* faulty variant of autoAdvance: wraps around at the end and never stops
autoAdvanceWrap(prev) ==
    [frameIndex |-> IF prev >= NFrames - 1 THEN 0 ELSE prev + 1, stop |-> FALSE]

\* the updater the timer callback hands to setFrameIndex: the new frameIndex
\* and whether it called setPlaying(false)
autoAdvance(prev) ==
    IF prev >= NFrames - 1 THEN [frameIndex |-> prev, stop |-> TRUE]
    ELSE IF advanceLoop(prev + 1) >= NFrames THEN [frameIndex |-> prev, stop |-> TRUE]
    ELSE [frameIndex |-> advanceLoop(prev + 1), stop |-> FALSE]

\* the delay of the timer armed at frame i with speed w, as a fraction of
\* milliseconds: (60000 / w) * pauseMultiplier
\* faulty variant of adjustedDelay: the base delay for every frame
adjustedDelayFlat(i, w) == [num |-> 60000 * 100, den |-> w * 100]

adjustedDelay(i, w) ==
    [num |-> 60000 * ctx.frames[i + 1].pauseMultiplier, den |-> w * 100]

\* the value setTimeout is called with for the state (i, w)
newTimer(i, w) == [frameIndex |-> i, wpm |-> w, delay |-> adjustedDelay(i, w)]

----------------------------------------------------------------------------
(* The state of the mounted application as one value: the React state of   *)
(* the two hooks, the ref of App and the pending timers.                   *)

World ==
    [frameIndex |-> frameIndex, wpm |-> wpm, playing |-> playing,
     activeSectionId |-> activeSectionId,
     activeVisualBlockIndex |-> activeVisualBlockIndex, pinned |-> pinned,
     prevSectionIdRef |-> prevSectionIdRef, timers |-> timers, timer |-> timer]

\* what a render reads: the React state
Rendered(w) ==
    <<w.frameIndex, w.wpm, w.playing, w.activeSectionId,
      w.activeVisualBlockIndex, w.pinned>>

(* Transport controls.  Each gives the state the next render sees.         *)

play(w) ==
    [w EXCEPT !.frameIndex = IF w.frameIndex >= NFrames - 1 THEN 0 ELSE @,
              !.playing = TRUE]

\* faulty variant of togglePlay: no restart from the end
togglePlayInPlace(w) == [w EXCEPT !.playing = ~w.playing]

togglePlay(w) ==
    [w EXCEPT !.frameIndex =
                 IF ~w.playing /\ w.frameIndex >= NFrames - 1 THEN 0 ELSE @,
              !.playing = ~w.playing]

pause(w) == [w EXCEPT !.playing = FALSE]

stepForward(w, n) ==
    [w EXCEPT !.playing = FALSE,
              !.frameIndex = skipHeadings(clampIndex(w.frameIndex + n), 1)]

stepBackward(w, n) ==
    [w EXCEPT !.playing = FALSE,
              !.frameIndex = skipHeadings(clampIndex(w.frameIndex - n), -1)]

\* faulty variant of jumpTo: pauses like the step controls
jumpToPausing(w, index) ==
    [w EXCEPT !.playing = FALSE,
              !.frameIndex = skipHeadings(clampIndex(index), 1)]

jumpTo(w, index) ==
    [w EXCEPT !.frameIndex = skipHeadings(clampIndex(index), 1)]

jumpToStart(w) == [w EXCEPT !.playing = FALSE, !.frameIndex = 0]

\* faulty variant of jumpToEnd: playback is left running
jumpToEndPlaying(w) == [w EXCEPT !.frameIndex = Max(0, NFrames - 1)]

jumpToEnd(w) == [w EXCEPT !.playing = FALSE, !.frameIndex = Max(0, NFrames - 1)]

setWpm(w, v) == [w EXCEPT !.wpm = clampWpm(v)]
speedUp(w) == [w EXCEPT !.wpm = clampWpm(w.wpm + WPM_STEP_SMALL)]
speedDown(w) == [w EXCEPT !.wpm = clampWpm(w.wpm - WPM_STEP_SMALL)]
speedUpLarge(w) == [w EXCEPT !.wpm = clampWpm(w.wpm + WPM_STEP_LARGE)]
speedDownLarge(w) == [w EXCEPT !.wpm = clampWpm(w.wpm - WPM_STEP_LARGE)]

\* the setTimeout callback: setFrameIndex((prev) => ...)
timerCallback(w) ==
    [w EXCEPT !.frameIndex = autoAdvance(w.frameIndex).frameIndex,
              !.playing = IF autoAdvance(w.frameIndex).stop THEN FALSE ELSE @]

\* derived value
progressIsZero == NFrames <= 1 \/ frameIndex = 0

----------------------------------------------------------------------------
(* Navigation synchronizer: the useDocument hook                           *)

initialSectionId == IF Len(ctx.flatSections) > 0 THEN ctx.flatSections[1] ELSE 0

\* sectionVBs.findIndex((vb) => vb.blockId === blockId)
visualIndexOf(sectionId, blockId) ==
    findIndexFrom(visualBlocksForSection(collectVisualBlocks, sectionId), blockId, 1)

\* jumpToSection returns the frame index to jump to
jumpToSectionResult(sectionId) ==
    IF flatIndexOf(sectionId) < 0 THEN 0
    ELSE IF Sec(ctx, sectionId).frameStart >= 0 THEN Sec(ctx, sectionId).frameStart
    ELSE 0

jumpToSection(w, sectionId) ==
    IF flatIndexOf(sectionId) < 0 THEN w
    ELSE [w EXCEPT !.activeSectionId = sectionId,
                   !.activeVisualBlockIndex = IF ~w.pinned THEN 0 ELSE @]

\* the section nextSection / prevSection jump to (NoSection: they return 0)
\* faulty variant of nextSectionTarget: no clamp at the last section
nextSectionTargetUnclamped(w) ==
    LET nextIdx == flatIndexOf(w.activeSectionId) + 1
    IN  IF nextIdx >= 0 /\ nextIdx < Len(ctx.flatSections)
        THEN ctx.flatSections[nextIdx + 1] ELSE NoSection

nextSectionTarget(w) ==
    LET nextIdx == Min(flatIndexOf(w.activeSectionId) + 1, Len(ctx.flatSections) - 1)
    IN  IF nextIdx >= 0 /\ nextIdx < Len(ctx.flatSections)
        THEN ctx.flatSections[nextIdx + 1] ELSE NoSection

prevSectionTarget(w) ==
    LET prevIdx == Max(flatIndexOf(w.activeSectionId) - 1, 0)
    IN  IF prevIdx < Len(ctx.flatSections)
        THEN ctx.flatSections[prevIdx + 1] ELSE NoSection

nextVisualBlock(w) ==
    LET n == Len(visualBlocksForSection(collectVisualBlocks, w.activeSectionId))
    IN  IF n = 0 THEN w
        ELSE [w EXCEPT !.activeVisualBlockIndex = Min(@ + 1, n - 1)]

prevVisualBlock(w) ==
    LET n == Len(visualBlocksForSection(collectVisualBlocks, w.activeSectionId))
    IN  IF n = 0 THEN w
        ELSE [w EXCEPT !.activeVisualBlockIndex = Max(@ - 1, 0)]

togglePin(w) == [w EXCEPT !.pinned = ~w.pinned]

\* faulty variant of syncToFrame: the same-section update does not look at
\* the pin
syncToFrameIgnoringPin(w, w0, f) ==
    LET section == sectionForFrame(f)
        sectionVBs == visualBlocksForSection(collectVisualBlocks, section)
        relevant == relevantVisualBlock(collectVisualBlocks, f)
        idx == visualIndexOf(section, relevant)
    IN  IF section # NoSection /\ section # w.activeSectionId
        THEN [w0 EXCEPT
                !.activeSectionId = section,
                !.activeVisualBlockIndex =
                    IF ~w.pinned /\ Len(sectionVBs) > 0
                    THEN (IF relevant # NoBlock /\ idx >= 0 THEN idx ELSE 0)
                    ELSE @]
        ELSE IF section # NoSection /\ section = w.activeSectionId
        THEN [w0 EXCEPT
                !.activeVisualBlockIndex =
                    IF Len(sectionVBs) > 0 /\ relevant # NoBlock /\ idx >= 0
                    THEN idx ELSE @]
        ELSE w0

\* syncToFrame as rendered with the state of w, called with f; w0 carries the
\* updates already queued in the same flush
syncToFrame(w, w0, f) ==
    LET section == sectionForFrame(f)
        sectionVBs == visualBlocksForSection(collectVisualBlocks, section)
        relevant == relevantVisualBlock(collectVisualBlocks, f)
        idx == visualIndexOf(section, relevant)
    IN  IF section # NoSection /\ section # w.activeSectionId
        THEN [w0 EXCEPT
                !.activeSectionId = section,
                !.activeVisualBlockIndex =
                    IF ~w.pinned /\ Len(sectionVBs) > 0
                    THEN (IF relevant # NoBlock /\ idx >= 0 THEN idx ELSE 0)
                    ELSE @]
        ELSE IF section # NoSection /\ section = w.activeSectionId /\ ~w.pinned
        THEN [w0 EXCEPT
                !.activeVisualBlockIndex =
                    IF Len(sectionVBs) > 0 /\ relevant # NoBlock /\ idx >= 0
                    THEN idx ELSE @]
        ELSE w0

----------------------------------------------------------------------------
(* React.  An update (a key press, a timer callback) queues state changes; *)
(* React renders the new state, commits it and runs the effects whose      *)
(* dependencies changed since the previous commit, in the order the        *)
(* component declares them; the state changes the effects queue lead to    *)
(* the next render, until nothing changes.  The host runs no other         *)
(* callback until the effects of a commit have run: one operation is one   *)
(* step, from one settled state to the next.                               *)
(*                                                                         *)
(* Each effect takes p, the previous commit, q, the commit being flushed   *)
(* (the values its closures hold), and acc, q with the updates the         *)
(* effects before it have queued.                                          *)

\* useRsvp: the self-correcting timer.  Its cleanup clears the handle of the
\* previous run; its body arms one timer for the rendered state
\* faulty variant of clearTimer: the handle is dropped, the timer not cleared
clearTimerLeak(acc) == [acc EXCEPT !.timer = {}]

clearTimer(acc) == [acc EXCEPT !.timers = @ \ acc.timer, !.timer = {}]

\* faulty variant of timerEffect: wpm is missing from the dependencies
timerEffectNoWpm(p, q, acc, mount) ==
    IF mount \/ p.playing # q.playing \/ p.frameIndex # q.frameIndex
    THEN LET cleared == clearTimer(acc)
         IN  IF ~q.playing \/ NFrames = 0 THEN cleared
             ELSE IF ~HasFrame(q.frameIndex)
             THEN [cleared EXCEPT !.playing = FALSE]
             ELSE [cleared EXCEPT
                     !.timers = @ \cup {newTimer(q.frameIndex, q.wpm)},
                     !.timer = {newTimer(q.frameIndex, q.wpm)}]
    ELSE acc

timerEffect(p, q, acc, mount) ==
    IF mount \/ p.playing # q.playing \/ p.frameIndex # q.frameIndex
             \/ p.wpm # q.wpm
    THEN LET cleared == clearTimer(acc)
         IN  IF ~q.playing \/ NFrames = 0 THEN cleared
             ELSE IF ~HasFrame(q.frameIndex)
             THEN [cleared EXCEPT !.playing = FALSE]
             ELSE [cleared EXCEPT
                     !.timers = @ \cup {newTimer(q.frameIndex, q.wpm)},
                     !.timer = {newTimer(q.frameIndex, q.wpm)}]
    ELSE acc

\* App: auto-play on mount
autoPlayEffect(q, acc, mount, autoPlay) ==
    IF mount /\ autoPlay /\ NFrames > 0
    THEN [acc EXCEPT !.frameIndex = play(q).frameIndex, !.playing = TRUE]
    ELSE acc

\* useDocument: reset the visual block index when the section changes
resetEffect(p, q, acc, mount) ==
    IF (mount \/ p.activeSectionId # q.activeSectionId \/ p.pinned # q.pinned)
       /\ ~q.pinned
    THEN [acc EXCEPT !.activeVisualBlockIndex = 0]
    ELSE acc

\* App: sync document navigation to the RSVP position
syncEffect(p, q, acc, mount) ==
    IF mount \/ p.frameIndex # q.frameIndex
    THEN syncToFrame(q, acc, q.frameIndex)
    ELSE acc

\* faulty variant of sectionPauseEffect: the ref is kept, pause() never called
sectionPauseEffectNoPause(p, q, acc, mount) ==
    IF mount \/ p.activeSectionId # q.activeSectionId
    THEN [acc EXCEPT !.prevSectionIdRef = q.activeSectionId]
    ELSE acc

\* App: section-boundary pause
sectionPauseEffect(p, q, acc, mount) ==
    IF mount \/ p.activeSectionId # q.activeSectionId
    THEN [acc EXCEPT
            !.playing = IF q.activeSectionId # acc.prevSectionIdRef /\ q.playing
                        THEN FALSE ELSE @,
            !.prevSectionIdRef = q.activeSectionId]
    ELSE acc

\* the effects of one commit, in declaration order
runEffects(p, q, mount, autoPlay) ==
    Only({sectionPauseEffect(p, q, a4, mount) :
            a4 \in {syncEffect(p, q, a3, mount) :
              a3 \in {resetEffect(p, q, a2, mount) :
                a2 \in {autoPlayEffect(q, a1, mount, autoPlay) :
                  a1 \in {timerEffect(p, q, q, mount)}}}}})

\* q as committed, with the refs and timers the effects left in r
Committed(q, r) ==
    [r EXCEPT !.frameIndex = q.frameIndex, !.wpm = q.wpm, !.playing = q.playing,
              !.activeSectionId = q.activeSectionId,
              !.activeVisualBlockIndex = q.activeVisualBlockIndex,
              !.pinned = q.pinned]

RECURSIVE Settle(_, _)
\* from the commit p and the queued state q to the next settled state
Settle(p, q) ==
    IF Rendered(p) = Rendered(q) THEN q
    ELSE Only({Only({Settle(c, r) : c \in {Committed(q, r)}}) :
                 r \in {runEffects(p, q, FALSE, FALSE)}})

\* the first render of App and its effects
Mount(initialWpm, autoPlay) ==
    LET w0 == [frameIndex |-> initialFrameIndex(0), wpm |-> initialWpm,
               playing |-> FALSE, activeSectionId |-> initialSectionId,
               activeVisualBlockIndex |-> 0, pinned |-> FALSE,
               prevSectionIdRef |-> initialSectionId,
               timers |-> {}, timer |-> {}]
    IN  Only({Only({Settle(c, r) : c \in {Committed(v, r)}}) :
                 v \in {w0}, r \in {runEffects(w0, w0, TRUE, autoPlay)}})

----------------------------------------------------------------------------
(* The inputs of the application                                           *)

MaxDocTokens == 3   \* top-level tokens of the documents the application shows
MaxStep == 2        \* stepForward / stepBackward by -1..MaxStep frames, or
                    \* by more than the document has

PlayTokens ==
    {Tok("heading", d, <<W_Title>>, <<Text(<<W_Title>>)>>) : d \in 1..2}
    \cup {Tok("paragraph", 0, <<W_Hello, W_world>>, <<Text(<<W_Hello, W_world>>)>>)}
    \cup {[Tok("code", 0, <<>>, <<>>) EXCEPT !.lang = "js"]}

RECURSIVE Contexts(_)
\* the parse contexts after at most n tokens, each with its token count
Contexts(n) ==
    IF n = 0 THEN {[c |-> NewParseContext, n |-> 0]}
    ELSE LET before == Contexts(n - 1)
         IN  before \cup {[c |-> walkToken(b.c, t), n |-> n] :
                            b \in {x \in before : x.n = n - 1}, t \in PlayTokens}

InitialWpms == {DEFAULT_WPM}
WpmInputs == {0, DEFAULT_WPM, MAX_WPM + 500}

----------------------------------------------------------------------------
(* The application as a state machine: one action per operation of the two *)
(* hooks, per key of App that combines them, and for the timer firing.     *)

Init ==
    /\ \E d \in Contexts(MaxDocTokens) : ctx = finalize(d.c) /\ ntok = d.n
    /\ phase = "finalized"
    /\ \E iw \in InitialWpms, auto \in BOOLEAN :
         \E w \in {Mount(iw, auto)} :
             /\ lastOp = Op("mount", IF auto THEN 1 ELSE 0)
             /\ frameIndex = w.frameIndex
             /\ wpm = w.wpm
             /\ playing = w.playing
             /\ activeSectionId = w.activeSectionId
             /\ activeVisualBlockIndex = w.activeVisualBlockIndex
             /\ pinned = w.pinned
             /\ prevSectionIdRef = w.prevSectionIdRef
             /\ timers = w.timers
             /\ timer = w.timer

\* the operation leads from World to the settled state after q
Do(p, q, op) ==
    \E w \in {Only({Settle(p0, q0) : p0 \in {p}, q0 \in {q}})} :
        /\ frameIndex' = w.frameIndex
        /\ wpm' = w.wpm
        /\ playing' = w.playing
        /\ activeSectionId' = w.activeSectionId
        /\ activeVisualBlockIndex' = w.activeVisualBlockIndex
        /\ pinned' = w.pinned
        /\ prevSectionIdRef' = w.prevSectionIdRef
        /\ timers' = w.timers
        /\ timer' = w.timer
        /\ lastOp' = op
        /\ UNCHANGED buildVars

Mounted == phase = "finalized" /\ lastOp.op # "finalize"

\* the argument of play and togglePlay records where the cursor was
Play == Mounted /\ Do(World, play(World), Op("play", frameIndex))
\* the argument records whether playback was running
Pause == Mounted /\ Do(World, pause(World), Op("pause", IF playing THEN 1 ELSE 0))
TogglePlay == Mounted /\ Do(World, togglePlay(World), Op("togglePlay", frameIndex))

StepForward ==
    /\ Mounted
    /\ \E n \in -1..MaxStep \cup {NFrames + 1} :
         Do(World, stepForward(World, n), Op("stepForward", n))

StepBackward ==
    /\ Mounted
    /\ \E n \in -1..MaxStep \cup {NFrames + 1} :
         Do(World, stepBackward(World, n), Op("stepBackward", n))

JumpTo ==
    /\ Mounted
    /\ \E i \in -1..NFrames : Do(World, jumpTo(World, i), Op("jumpTo", i))

\* the argument records whether playback was running
JumpToStart ==
    Mounted /\ Do(World, jumpToStart(World),
                  Op("jumpToStart", IF playing THEN 1 ELSE 0))
JumpToEnd ==
    Mounted /\ Do(World, jumpToEnd(World),
                  Op("jumpToEnd", IF playing THEN 1 ELSE 0))

SetWpm ==
    /\ Mounted
    /\ \E v \in WpmInputs : Do(World, setWpm(World, v), Op("setWpm", v))

SpeedUp == Mounted /\ Do(World, speedUp(World), Op("speedUp", 0))
SpeedDown == Mounted /\ Do(World, speedDown(World), Op("speedDown", 0))
SpeedUpLarge == Mounted /\ Do(World, speedUpLarge(World), Op("speedUpLarge", 0))
SpeedDownLarge == Mounted /\ Do(World, speedDownLarge(World), Op("speedDownLarge", 0))

\* a pending timer fires: the host drops it and runs its callback
TimerFire ==
    /\ Mounted
    /\ \E t \in timers :
         LET w == [World EXCEPT !.timers = @ \ {t}]
         IN  Do(w, timerCallback(w), Op("timer", t.frameIndex))

\* keys j and k of App: nextSection / prevSection, then jumpTo its result
KeyNextSection ==
    /\ Mounted
    /\ LET target == nextSectionTarget(World)
       IN  Do(World,
              jumpTo(jumpToSection(World, target), jumpToSectionResult(target)),
              Op("nextSection", target))

KeyPrevSection ==
    /\ Mounted
    /\ LET target == prevSectionTarget(World)
       IN  Do(World,
              jumpTo(jumpToSection(World, target), jumpToSectionResult(target)),
              Op("prevSection", target))

NextVisualBlock == Mounted /\ Do(World, nextVisualBlock(World), Op("nextVisualBlock", 0))
PrevVisualBlock == Mounted /\ Do(World, prevVisualBlock(World), Op("prevVisualBlock", 0))
TogglePin == Mounted /\ Do(World, togglePin(World), Op("togglePin", 0))

\* the keys that reach the playback engine, and the timer
Next ==
    \/ Play \/ Pause \/ TogglePlay
    \/ StepForward \/ StepBackward \/ JumpTo \/ JumpToStart \/ JumpToEnd
    \/ SetWpm \/ TimerFire
    \/ KeyNextSection \/ KeyPrevSection

Spec == Init /\ [][Next]_vars

\* the document pane: every way the cursor moves (playback, steps, jumps,
\* section keys) and the keys that change only the state of useDocument; the
\* speed is left alone
NextNav ==
    \/ Play \/ TimerFire
    \/ StepForward \/ StepBackward \/ JumpTo \/ JumpToStart \/ JumpToEnd
    \/ KeyNextSection \/ KeyPrevSection
    \/ NextVisualBlock \/ PrevVisualBlock \/ TogglePin

SpecNav == Init /\ [][NextNav]_vars

----------------------------------------------------------------------------
(* Playback left alone: the application after play(), at every cursor a    *)
(* jump or a step back can leave, and from there only the timer.  A timer  *)
(* the host holds does fire: weak fairness of TimerFire.                   *)

InitAuto ==
    /\ \E d \in Contexts(MaxDocTokens) : ctx = finalize(d.c) /\ ntok = d.n
    /\ phase = "finalized"
    /\ NFrames > 0
    /\ \E i \in 0..(NFrames - 1), back \in BOOLEAN :
         \E m \in {Mount(DEFAULT_WPM, FALSE)} :
           \E s \in {Settle(m, IF back THEN stepBackward(m, i) ELSE jumpTo(m, i))} :
             \E w \in {Settle(s, play(s))} :
                 /\ w.playing
                 /\ lastOp = Op("play", 0)
                 /\ frameIndex = w.frameIndex
                 /\ wpm = w.wpm
                 /\ playing = w.playing
                 /\ activeSectionId = w.activeSectionId
                 /\ activeVisualBlockIndex = w.activeVisualBlockIndex
                 /\ pinned = w.pinned
                 /\ prevSectionIdRef = w.prevSectionIdRef
                 /\ timers = w.timers
                 /\ timer = w.timer

NextAuto == TimerFire

SpecAuto == InitAuto /\ [][NextAuto]_vars /\ WF_vars(TimerFire)

----------------------------------------------------------------------------
(* The speed controls, for the engine constructed with any initial wpm     *)

SpeedInitialWpms == {10, DEFAULT_WPM, MAX_WPM + 100}

InitSpeed ==
    /\ \E d \in Contexts(1) : ctx = finalize(d.c) /\ ntok = d.n
    /\ phase = "finalized"
    /\ \E iw \in SpeedInitialWpms, auto \in BOOLEAN :
         \E w \in {Mount(iw, auto)} :
             /\ lastOp = Op("mount", IF auto THEN 1 ELSE 0)
             /\ frameIndex = w.frameIndex
             /\ wpm = w.wpm
             /\ playing = w.playing
             /\ activeSectionId = w.activeSectionId
             /\ activeVisualBlockIndex = w.activeVisualBlockIndex
             /\ pinned = w.pinned
             /\ prevSectionIdRef = w.prevSectionIdRef
             /\ timers = w.timers
             /\ timer = w.timer

NextSpeed == SetWpm \/ SpeedUp \/ SpeedDown \/ SpeedUpLarge \/ SpeedDownLarge

SpecSpeed == InitSpeed /\ [][NextSpeed]_vars

----------------------------------------------------------------------------
(* The document pane on longer documents of fewer kinds of token, so that  *)
(* a section can hold two code blocks around its prose and be followed by  *)
(* another section.                                                        *)

MaxPaneTokens == 4

\* "# Title", "Hello world." and a js code fence
PaneTokens ==
    {Tok("heading", 1, <<W_Title>>, <<Text(<<W_Title>>)>>),
     PlainParagraph,
     [Tok("code", 0, <<>>, <<>>) EXCEPT !.lang = "js"]}

PaneSources == UNION {[1..n -> PaneTokens] : n \in 0..MaxPaneTokens}

InitPane ==
    /\ \E d \in PaneSources : ctx = parseDocument(d) /\ ntok = Len(d)
    /\ phase = "finalized"
    /\ \E auto \in BOOLEAN :
         \E w \in {Mount(DEFAULT_WPM, auto)} :
             /\ lastOp = Op("mount", IF auto THEN 1 ELSE 0)
             /\ frameIndex = w.frameIndex
             /\ wpm = w.wpm
             /\ playing = w.playing
             /\ activeSectionId = w.activeSectionId
             /\ activeVisualBlockIndex = w.activeVisualBlockIndex
             /\ pinned = w.pinned
             /\ prevSectionIdRef = w.prevSectionIdRef
             /\ timers = w.timers
             /\ timer = w.timer

SpecPane == InitPane /\ [][NextNav]_vars

----------------------------------------------------------------------------
(* The word functions of src/src/orp.ts on their own: a word is typed one  *)
(* character at a time and getOrpIndex and computePauseMultiplier (for     *)
(* every combination of the three flags) are applied to it.  ctx holds the *)
(* word and the results.                                                   *)

MaxLetters == 14
MaxPunct == 2

Flags == BOOLEAN \X BOOLEAN \X BOOLEAN

\* the word with the values the two functions return for it; flags are
\* <<isHeading, isInlineCode, isEndOfParagraph>>
Measured(word) ==
    [word |-> word,
     orpIndex |-> getOrpIndex(word),
     pause |-> [fl \in Flags |-> computePauseMultiplier(word, fl[1], fl[2], fl[3])]]

\* positions of the word holding a character of TRAILING_PUNCT
Marks(word) == {k \in 1..Len(word) : word[k] \in TRAILING_PUNCT}

\* a punctuation character is followed by another character
HasInteriorMark(word) ==
    \E k \in Marks(word) : \E j \in (k + 1)..Len(word) : j \notin Marks(word)

InitOrp ==
    /\ ctx = Measured(<<>>)
    /\ phase = "orp"
    /\ ntok = 0
    /\ lastOp = Op("new", 0)
    /\ NotMounted

\* one more letter; after punctuation only once, so that words have one
\* interior mark at most
TypeLetter ==
    /\ phase = "orp"
    /\ Len(ctx.word) - Cardinality(Marks(ctx.word)) < MaxLetters
    /\ (EndsIn(ctx.word, TRAILING_PUNCT) => Cardinality(Marks(ctx.word)) = 1)
    /\ ctx' = Measured(Append(ctx.word, "a"))
    /\ lastOp' = Op("typeLetter", Len(ctx.word))
    /\ UNCHANGED <<phase, ntok>>
    /\ UNCHANGED appVars

\* one more character of TRAILING_PUNCT
TypePunct ==
    /\ phase = "orp"
    /\ Cardinality(Marks(ctx.word)) < MaxPunct
    /\ (HasInteriorMark(ctx.word) => ~EndsIn(ctx.word, TRAILING_PUNCT))
    /\ \E p \in TRAILING_PUNCT : ctx' = Measured(Append(ctx.word, p))
    /\ lastOp' = Op("typePunct", Len(ctx.word))
    /\ UNCHANGED <<phase, ntok>>
    /\ UNCHANGED appVars

NextOrp == TypeLetter \/ TypePunct

SpecOrp == InitOrp /\ [][NextOrp]_vars

----------------------------------------------------------------------------
(* Properties                                                              *)

\* the document has a frame that is not a heading
HasContent == \E i \in 0..(NFrames - 1) : ~IsHeading(i)

\* C1: in a document with at least one non-heading frame, the frame at the
\* cursor after stepForward(n), stepBackward(n) or jumpTo(index) is not a
\* heading.  Refuted under Spec: C1_HeadingSkipped is violated.
C1_HeadingSkipped ==
    (Mounted /\ HasContent /\ lastOp.op \in {"stepForward", "stepBackward", "jumpTo"})
        => ~IsHeading(frameIndex)

C3_CursorInBounds ==
    (Mounted /\ NFrames > 0) =>
        /\ frameIndex >= 0 /\ frameIndex <= NFrames - 1
        /\ (lastOp.op \in {"stepForward", "jumpTo"} /\ lastOp.arg >= NFrames)
              => frameIndex = NFrames - 1
        /\ (lastOp.op = "stepBackward" /\ lastOp.arg >= NFrames)
              => frameIndex = 0
        /\ (lastOp.op = "jumpTo" /\ lastOp.arg < 0)
              => /\ \A j \in 0..(frameIndex - 1) : IsHeading(j)
                 /\ (IsHeading(frameIndex) => frameIndex = NFrames - 1)

\* C3: a step forward by more frames than the document has, taken from
\* before the last frame, was clamped to the last frame
C3_ClampedStep ==
    /\ Mounted /\ NFrames >= 3
    /\ lastOp = Op("stepForward", NFrames + 1)
    /\ frameIndex = NFrames - 1

\* C4: whatever initial wpm the engine is constructed with, wpm is within
\* [MIN_WPM, MAX_WPM] in every state.  Refuted under SpecSpeed: C4_WpmInRange
\* is violated.
C4_WpmInRange == Mounted => (wpm >= MIN_WPM /\ wpm <= MAX_WPM)

\* C5: with no frames, progress is 0 and after every transport operation
\* frameIndex = 0 and playing = false.  Refuted under Spec: C5_ZeroFrameNoOp
\* is violated.
C5_ZeroFrameNoOp ==
    (Mounted /\ NFrames = 0) => (progressIsZero /\ frameIndex = 0 /\ ~playing)

\* C6: after pause() no scheduled advance is left that could move the
\* cursor: playing is false and no timer is pending, so the cursor stays
\* until the next operation.
C6_PauseImmediate ==
    (Mounted /\ lastOp.op = "pause") => (~playing /\ timers = {} /\ timer = {})

\* C6: pause() was invoked while playing, with frames still ahead
C6_PausedMidway ==
    /\ Mounted
    /\ lastOp = Op("pause", 1)
    /\ frameIndex < NFrames - 1
    /\ timers = {}

\* C7: at most one advance is pending; a pending advance exists only while
\* playing and is the one armed for the present frameIndex and wpm (every
\* advance armed for an earlier frameIndex, wpm or playing is cancelled); and
\* while playing on a frame, one is pending.
C7_OneTimerForPresentState ==
    Mounted =>
        /\ Cardinality(timers) <= 1
        /\ timers = timer
        /\ \A t \in timers :
              playing /\ t.frameIndex = frameIndex /\ t.wpm = wpm
        /\ (playing /\ NFrames > 0) => timers # {}

\* C7: the speed was changed during playback and the advance pending now is
\* the one armed for the new speed
C7_Rearmed ==
    /\ Mounted
    /\ lastOp.op = "setWpm"
    /\ playing
    /\ wpm # DEFAULT_WPM
    /\ timers = {newTimer(frameIndex, wpm)}

\* C8: an auto-advance that moves the cursor into a frame of a section other
\* than the active one ends with playback paused, the cursor on the frame
\* the advance reached (the first frame after the old cursor that is not a
\* heading, or the last frame), that frame's section active, and no advance
\* pending.
C8_SectionBoundaryPause ==
    [][(/\ lastOp'.op = "timer"
        /\ frameIndex' # frameIndex
        /\ ctx.frames[frameIndex' + 1].sectionId # activeSectionId)
       => /\ ~playing'
          /\ timers' = {}
          /\ frameIndex' > frameIndex
          /\ \A j \in (frameIndex + 1)..(frameIndex' - 1) : IsHeading(j)
          /\ activeSectionId' = ctx.frames[frameIndex' + 1].sectionId]_vars

\* C8: the timer armed on a frame of one section moved the cursor to a frame
\* of another, short of the end, and playback is paused there
C8_PausedAtBoundary ==
    /\ Mounted
    /\ lastOp.op = "timer"
    /\ HasFrame(lastOp.arg) /\ lastOp.arg < frameIndex
    /\ frameIndex < NFrames - 1
    /\ ctx.frames[lastOp.arg + 1].sectionId # ctx.frames[frameIndex + 1].sectionId
    /\ activeSectionId = ctx.frames[frameIndex + 1].sectionId
    /\ ~playing

RECURSIVE Subtree(_, _)
\* a section and the sections nested in it, by the children lists
Subtree(c, id) ==
    {id} \cup UNION {Subtree(c, Sec(c, id).children[k]) :
                        k \in 1..Len(Sec(c, id).children)}

\* the indices of the frames of a section and of the sections nested in it
SubtreeFrames(c, id) ==
    {i \in 0..(Len(c.frames) - 1) : c.frames[i + 1].sectionId \in Subtree(c, id)}

\* C9: for every section of a built document, the frames of the section and
\* of its descendants are exactly the frames with index in
\* [frameStart, frameEnd]; with no such frame frameStart = frameEnd = -1.
C9_FrameRangeContainment ==
    phase = "finalized" =>
        \A k \in 1..Len(ctx.flatSections) :
            LET s == Sec(ctx, ctx.flatSections[k])
                own == SubtreeFrames(ctx, s.id)
            IN  /\ \A i \in 0..(Len(ctx.frames) - 1) :
                      (i \in own) <=> (s.frameStart <= i /\ i <= s.frameEnd)
                /\ own = {} => (s.frameStart = -1 /\ s.frameEnd = -1)
                /\ own # {} => (s.frameStart \in own /\ s.frameEnd \in own)

\* C9: a built document with a section whose range spans frames of a nested
\* section, and with frames of another section after it
C9_NestedRange ==
    /\ phase = "finalized" /\ lastOp.op = "finalize"
    /\ \E k \in 1..Len(ctx.flatSections) :
          LET s == Sec(ctx, ctx.flatSections[k])
          IN  /\ s.children # <<>>
              /\ s.frameStart >= 0
              /\ ctx.frames[s.frameEnd + 1].sectionId # s.id
              /\ s.frameEnd < Len(ctx.frames) - 1

\* a frame but for its pause multiplier, which later tokens may raise
SansPause(f) == [f EXCEPT !.pauseMultiplier = 0]

\* C10: frames[i].index = i in every state of the construction and of the
\* built document, and a step of the construction keeps the frames it found,
\* in their order: frames are only appended.
C10_FrameIndexStable ==
    /\ [](\A i \in 1..Len(ctx.frames) : ctx.frames[i].index = i - 1)
    /\ [][/\ Len(ctx'.frames) >= Len(ctx.frames)
          /\ \A i \in 1..Len(ctx.frames) :
                SansPause(ctx'.frames[i]) = SansPause(ctx.frames[i])]_vars

\* C10: a token appended frames to the frames of the tokens before it
C10_Appended ==
    /\ phase = "walk" /\ ntok >= 2
    /\ lastOp.op = "paragraph"
    /\ Len(ctx.frames) >= 3
    /\ ctx.frames[Len(ctx.frames)].index = Len(ctx.frames) - 1

\* the sections whose children list holds id
ParentsOf(c, id) ==
    {p \in 0..(Len(c.arena) - 1) : id \in Range(Sec(c, p).children)}

\* the headings before the section id that have a strictly smaller level
ShallowerBefore(c, id) ==
    {q \in 1..(id - 1) : Sec(c, q).level < Sec(c, id).level}

\* C11: a heading of level L closes every open section of level >= L and
\* leaves the others open; the new section is the innermost open one and a
\* child of the section open just outside it, or a top-level section if there
\* is none.  In every state each section is the child of exactly the nearest
\* preceding heading of strictly smaller level, and top-level if there is no
\* such heading.
C11_NestingRule ==
    /\ [](\A id \in 1..(Len(ctx.arena) - 1) :
            IF ShallowerBefore(ctx, id) = {}
            THEN ParentsOf(ctx, id) = {} /\ id \in Range(ctx.sections)
            ELSE /\ ParentsOf(ctx, id) = {SetMax(ShallowerBefore(ctx, id))}
                 /\ id \notin Range(ctx.sections))
    /\ [][lastOp'.op = "heading" =>
            LET new == ctx.nextSectionId
                L == Sec(ctx', new).level
                open == ctx'.sectionStack
            IN  /\ Len(ctx'.arena) = Len(ctx.arena) + 1
                /\ Range(open) =
                     {id \in Range(ctx.sectionStack) : Sec(ctx, id).level < L}
                       \cup {new}
                /\ Last(open) = new
                /\ \A k \in 1..(Len(open) - 1) :
                      Sec(ctx', open[k]).level < Sec(ctx', open[k + 1]).level
                /\ IF Len(open) = 1
                   THEN ParentsOf(ctx', new) = {} /\ new \in Range(ctx'.sections)
                   ELSE ParentsOf(ctx', new) = {open[Len(open) - 1]}]_vars

\* C11: a heading closed a deeper section and became the second child of the
\* section that stayed open
C11_ClosedAndNested ==
    /\ phase = "walk" /\ lastOp.op = "heading"
    /\ Len(ctx.sectionStack) = 2
    /\ Len(Sec(ctx, ctx.sectionStack[1]).children) = 2
    /\ Sec(ctx, Sec(ctx, ctx.sectionStack[1]).children[1]).level
          > Sec(ctx, ctx.sectionStack[2]).level

\* C12: in a built document every section listed in sections has
\* parentId = -1 and every other section's parentId is the id of a section
\* of flatSections.  Refuted under SpecBuild: C12_ParentIds is violated.
C12_ParentIds ==
    phase = "finalized" =>
        \A k \in 1..Len(ctx.flatSections) :
            LET s == Sec(ctx, ctx.flatSections[k])
            IN  IF s.id \in Range(ctx.sections)
                THEN s.parentId = -1
                ELSE s.parentId \in Range(ctx.flatSections)

\* C13: a step that changes the active section ends with the active visual
\* block index 0, pinned or not.  Refuted under SpecNav:
\* C13_SectionChangeResets is violated.
C13_SectionChangeResets ==
    [][activeSectionId' # activeSectionId => activeVisualBlockIndex' = 0]_vars

\* the position, among the visual blocks of the section of frame f, of the
\* block the look-ahead picks for f
lookAheadIndex(f) ==
    visualIndexOf(ctx.frames[f + 1].sectionId,
                  relevantVisualBlock(collectVisualBlocks, f))

\* C14: in every pinned state, syncToFrame(f) for any frame f of the active
\* section leaves the active visual block index as it is; and while pinned,
\* a step that moves the cursor (and so runs syncToFrame(frameIndex))
\* without changing the active section leaves the index as it was.
C14_PinSuppressesSync ==
    /\ []((Mounted /\ pinned) =>
            \A f \in 0..(NFrames - 1) :
                ctx.frames[f + 1].sectionId = activeSectionId
                => syncToFrame(World, World, f).activeVisualBlockIndex
                       = activeVisualBlockIndex)
    /\ [][(/\ pinned /\ pinned'
            /\ frameIndex' # frameIndex
            /\ activeSectionId' = activeSectionId)
           => activeVisualBlockIndex' = activeVisualBlockIndex]_vars

\* C14: pinned, the cursor has moved inside the active section to a frame
\* for which the look-ahead picks another block than the one displayed
C14_PinnedElsewhere ==
    /\ Mounted /\ pinned
    /\ lastOp.op \in {"stepForward", "stepBackward", "jumpTo", "timer"}
    /\ HasFrame(frameIndex)
    /\ ctx.frames[frameIndex + 1].sectionId = activeSectionId
    /\ lookAheadIndex(frameIndex) >= 0
    /\ lookAheadIndex(frameIndex) # activeVisualBlockIndex

\* C15: in every state, syncToFrame(f) for a valid frame index f leads to
\* the active section frames[f].sectionId, and to no change of the active
\* section if that is the active one already; and a step that moves the
\* cursor, whose sync effect calls syncToFrame(frameIndex), ends with the
\* section of the cursor's frame active.
C15_SyncSetsSection ==
    /\ [](Mounted =>
            \A f \in 0..(NFrames - 1) :
                syncToFrame(World, World, f).activeSectionId
                    = ctx.frames[f + 1].sectionId)
    /\ [][(frameIndex' # frameIndex /\ HasFrame(frameIndex'))
            => activeSectionId' = ctx.frames[frameIndex' + 1].sectionId]_vars

\* C15: a step moved the cursor into another section than the first and
\* syncToFrame made that section active
C15_SyncedToOtherSection ==
    /\ Mounted
    /\ lastOp.op \in {"stepForward", "timer"}
    /\ HasFrame(frameIndex)
    /\ activeSectionId = ctx.frames[frameIndex + 1].sectionId
    /\ activeSectionId # ctx.frames[1].sectionId

\* the ids of the code, diagram, table and list blocks section sectionId
\* directly owns
OwnedVisual(sectionId) ==
    {ctx.blocks[k].id : k \in {j \in 1..Len(ctx.blocks) :
        /\ ctx.blocks[j].type \in {"code", "mermaid", "table", "list"}
        /\ ctx.blocks[j].sectionId = sectionId}}

\* those of them that start at or after frame f
Upcoming(sectionId, f) ==
    {b \in OwnedVisual(sectionId) : ctx.blocks[b + 1].frameStart >= f}

\* C16: in a built document, for every frame index f, relevantVisualBlock
\* returns no block when the section of frame f owns no visual block;
\* otherwise the first of the section's visual blocks, in document order,
\* with frameStart >= f, and the section's last visual block when there is
\* none.
C16_LookAhead ==
    phase = "finalized" =>
        \A f \in 0..(Len(ctx.frames) - 1) :
            LET sec == ctx.frames[f + 1].sectionId
                got == relevantVisualBlock(collectVisualBlocks, f)
            IN  IF OwnedVisual(sec) = {} THEN got = NoBlock
                ELSE IF Upcoming(sec, f) # {} THEN got = SetMin(Upcoming(sec, f))
                ELSE got = SetMax(OwnedVisual(sec))

\* C16: a built document with a frame past both visual blocks of its
\* section, for which the last one is returned, and a frame with an
\* upcoming block that is not the section's last
C16_PastAllBlocks ==
    /\ phase = "finalized"
    /\ \E f \in 0..(Len(ctx.frames) - 1) :
          LET sec == ctx.frames[f + 1].sectionId
          IN  /\ Cardinality(OwnedVisual(sec)) >= 2
              /\ Upcoming(sec, f) = {}
              /\ relevantVisualBlock(collectVisualBlocks, f) = SetMax(OwnedVisual(sec))
    /\ \E f \in 0..(Len(ctx.frames) - 1) :
          LET sec == ctx.frames[f + 1].sectionId
          IN  /\ Upcoming(sec, f) # {}
              /\ relevantVisualBlock(collectVisualBlocks, f) # SetMax(OwnedVisual(sec))

\* the length of the word up to its last character that is not trailing
\* punctuation
CoreLen(word) ==
    LET keep == (1..Len(word)) \ Marks(word)
    IN  IF keep = {} THEN 0 ELSE SetMax(keep)

\* the values of the pacing rules that apply to the word under the flags
ApplicableRules(word, isHeading, isInlineCode, isEndOfParagraph) ==
    {100}
    \cup (IF isEndOfParagraph THEN {250} ELSE {})
    \cup (IF word # <<>> /\ Last(word) \in {".", "!", "?"} THEN {200} ELSE {})
    \cup (IF word # <<>> /\ Last(word) \in {",", ";", ":"} THEN {140} ELSE {})
    \cup (IF word # <<>> /\ Last(word) \in {"ndash", "mdash"} THEN {150} ELSE {})
    \cup (IF isHeading THEN {180} ELSE {})
    \cup (IF isInlineCode THEN {140} ELSE {})
    \cup (IF CoreLen(word) > 12 THEN {130} ELSE {})
    \cup (IF CoreLen(word) > 8 THEN {115} ELSE {})

C18_OrpTiers ==
    phase = "orp" =>
        LET n == CoreLen(ctx.word)
        IN  /\ ctx.orpIndex = (IF n <= 1 THEN 0
                               ELSE IF n <= 5 THEN 1
                               ELSE IF n <= 9 THEN 2
                               ELSE IF n <= 13 THEN 3
                               ELSE 4)
            /\ ctx.word # <<>> =>
                  /\ 0 <= ctx.orpIndex /\ ctx.orpIndex <= 4
                  /\ ctx.orpIndex <= Len(ctx.word) - 1

\* C18: a word whose core is longer than 13, followed by punctuation, with
\* focal index 4
C18_TopTier ==
    /\ phase = "orp"
    /\ CoreLen(ctx.word) > 13
    /\ Len(ctx.word) > CoreLen(ctx.word)
    /\ ctx.orpIndex = 4

\* C19: appending trailing punctuation to a word does not change
\* getOrpIndex: for every word and every character p of TRAILING_PUNCT,
\* getOrpIndex(word + p) = getOrpIndex(word), and every step that types
\* punctuation, after letters or after punctuation, keeps the index; longer
\* suffixes follow one character at a time.
C19_PunctuationInvariance ==
    /\ [](phase = "orp" =>
            \A p \in TRAILING_PUNCT :
                getOrpIndex(Append(ctx.word, p)) = ctx.orpIndex)
    /\ [][lastOp'.op = "typePunct" => ctx'.orpIndex = ctx.orpIndex]_vars

\* C19: a second punctuation character has been typed after a core of two
\* letters or more, whose index is not 0
C19_TwoMarksTyped ==
    /\ phase = "orp" /\ lastOp.op = "typePunct"
    /\ CoreLen(ctx.word) >= 2
    /\ Len(ctx.word) > CoreLen(ctx.word) + 1
    /\ ctx.orpIndex > 0

\* the document "# Title\n\nHello world."
SimpleParagraph ==
    <<Tok("heading", 1, <<W_Title>>, <<Text(<<W_Title>>)>>), PlainParagraph>>

\* the state holds the document built from SimpleParagraph
BuiltSimpleParagraph ==
    phase = "finalized" /\ ntok = 2 /\ ctx = parseDocument(SimpleParagraph)

\* one top-level section, level 1, title "Title", and three frames "Title"
\* (heading, multiplier at least 2.5), "Hello" (1.0) and "world." with
\* multiplier m (in hundredths)
SimpleParagraphShape(m) ==
    /\ Len(ctx.sections) = 1
    /\ Sec(ctx, ctx.sections[1]).level = 1
    /\ Sec(ctx, ctx.sections[1]).title = <<W_Title>>
    /\ Len(ctx.frames) = 3
    /\ ctx.frames[1].word = W_Title
    /\ ctx.frames[1].heading
    /\ ctx.frames[1].pauseMultiplier >= 250
    /\ ctx.frames[2].word = W_Hello
    /\ ctx.frames[2].pauseMultiplier = 100
    /\ ctx.frames[3].word = W_world
    /\ ctx.frames[3].pauseMultiplier = m

\* C20 as stated: the document "# Title\n\nHello world." yields one
\* top-level section (level 1, title "Title") and the frames "Title"
\* (heading, multiplier >= 2.5), "Hello" (1.0) and "world." (2.0).
\* Refuted: C20_SimpleParagraphAsStated is violated.
C20_SimpleParagraphAsStated == BuiltSimpleParagraph => SimpleParagraphShape(200)

\* C20, amended: the same document yields one top-level section (level 1,
\* title "Title") and the frames "Title" (heading, multiplier >= 2.5),
\* "Hello" (1.0) and "world." (2.5, the end-of-paragraph pause).
C20_SimpleParagraph == BuiltSimpleParagraph => SimpleParagraphShape(250)

\* C20: the document has been built, its last frame is "world."
C20_Built ==
    /\ BuiltSimpleParagraph
    /\ lastOp.op = "finalize"
    /\ Last(ctx.frames).word = W_world

\* C21: walking a code fence appends one code or diagram block and no
\* frame, and the block's frameStart and frameEnd are the number of frames
\* emitted before it; so in every state no frame belongs to a code or
\* diagram block, the frames before its frameStart come from earlier
\* blocks and the frames from frameStart on from later blocks.
C21_CodeFencePlacement ==
    /\ [][lastOp'.op = "code" =>
            /\ ctx'.frames = ctx.frames
            /\ Len(ctx'.blocks) = Len(ctx.blocks) + 1
            /\ Last(ctx'.blocks).type \in {"code", "mermaid"}
            /\ Last(ctx'.blocks).frameStart = Len(ctx.frames)
            /\ Last(ctx'.blocks).frameEnd = Len(ctx.frames)]_vars
    /\ [](phase \in {"walk", "finalized"} =>
            \A k \in 1..Len(ctx.blocks) :
                ctx.blocks[k].type \in {"code", "mermaid"} =>
                    /\ ctx.blocks[k].frameStart = ctx.blocks[k].frameEnd
                    /\ \A i \in 1..Len(ctx.frames) :
                          IF ctx.frames[i].index < ctx.blocks[k].frameStart
                          THEN ctx.frames[i].blockId < ctx.blocks[k].id
                          ELSE ctx.frames[i].blockId > ctx.blocks[k].id)

\* C21: paragraph, code fence, paragraph: the fence's frameStart is the
\* index of the second paragraph's first frame
C21_FenceBetweenParagraphs ==
    /\ phase = "walk" /\ ntok = 3
    /\ Len(ctx.blocks) = 3
    /\ ctx.blocks[1].type = "prose"
    /\ ctx.blocks[2].type = "code"
    /\ ctx.blocks[3].type = "prose"
    /\ ctx.blocks[2].frameStart > 0
    /\ ctx.blocks[2].frameStart = ctx.blocks[3].frameStart
    /\ ctx.frames[ctx.blocks[2].frameStart + 1].blockId = ctx.blocks[3].id

\* frame i (one-based position) is the last frame of a list item's text:
\* a list-item frame followed by no frame, or by a frame of another block,
\* another item or another nesting depth
EndsListItem(i) ==
    /\ ctx.frames[i].isListItem
    /\ \/ i = Len(ctx.frames)
       \/ ~ctx.frames[i + 1].isListItem
       \/ ctx.frames[i + 1].blockId # ctx.frames[i].blockId
       \/ ctx.frames[i + 1].listDepth # ctx.frames[i].listDepth
       \/ ctx.frames[i + 1].listItemIndex # ctx.frames[i].listItemIndex
       \/ ctx.frames[i + 1].listType # ctx.frames[i].listType

\* C22: in every document, during the walk and once built, the last frame
\* of every list item, at any depth, has pauseMultiplier >= 2.0.
C22_ListItemPause ==
    phase \in {"walk", "finalized"} =>
        \A i \in 1..Len(ctx.frames) :
            EndsListItem(i) => ctx.frames[i].pauseMultiplier >= 200

\* C22: a built two-item list whose first item ends in a word that was
\* created with multiplier 1.0 and now has 2.0, and a built list with an
\* item at depth 1
C22_TwoItemsRaised ==
    /\ phase = "finalized"
    /\ \E i \in 1..(Len(ctx.frames) - 1) :
          /\ EndsListItem(i)
          /\ ctx.frames[i].listItemIndex = 0
          /\ ctx.frames[i + 1].isListItem
          /\ ctx.frames[i + 1].blockId = ctx.frames[i].blockId
          /\ ctx.frames[i + 1].listItemIndex = 1
          /\ computePauseMultiplier(ctx.frames[i].word, FALSE, FALSE, FALSE) = 100
          /\ ctx.frames[i].pauseMultiplier = 200
    /\ \E i \in 1..Len(ctx.frames) :
          EndsListItem(i) /\ ctx.frames[i].listDepth = 1

\* the cursor after play() or togglePlay() from the paused state: 0 from
\* the last frame, unchanged otherwise
RestartedCursor == IF frameIndex = NFrames - 1 THEN 0 ELSE frameIndex

\* C23: in every paused state play() and togglePlay() give playing = true
\* and the cursor RestartedCursor; in every playing state togglePlay()
\* gives playing = false and the same cursor; and the steps of these
\* controls end with that cursor, and with playing = true unless the move
\* changed the active section (where the App pauses, see C8).
C23_PlayAndToggle ==
    /\ [](Mounted =>
            /\ ~playing =>
                  /\ play(World).playing
                  /\ play(World).frameIndex = RestartedCursor
                  /\ togglePlay(World).playing
                  /\ togglePlay(World).frameIndex = RestartedCursor
            /\ playing =>
                  /\ ~togglePlay(World).playing
                  /\ togglePlay(World).frameIndex = frameIndex)
    /\ [][(lastOp'.op \in {"play", "togglePlay"} /\ ~playing)
            => /\ frameIndex' = RestartedCursor
               /\ playing' \/ activeSectionId' # activeSectionId]_vars
    /\ [][(lastOp'.op = "togglePlay" /\ playing)
            => (~playing' /\ frameIndex' = frameIndex)]_vars

\* C23: playback has been started by togglePlay() from the last frame of a
\* document of several frames, and the cursor is back at 0
C23_RestartedFromEnd ==
    /\ Mounted /\ NFrames > 1
    /\ lastOp = Op("togglePlay", NFrames - 1)
    /\ playing
    /\ frameIndex = 0

\* C24: a timer-driven advance that moves the cursor does not put it on a
\* heading frame.  Refuted under Spec: C24_AutoAdvanceAvoidsHeadings is
\* violated.
C24_AutoAdvanceAvoidsHeadings ==
    [][(lastOp'.op = "timer" /\ frameIndex' # frameIndex)
        => ~ctx.frames[frameIndex' + 1].heading]_vars

\* after stepForward, stepBackward, jumpToStart or jumpToEnd playing is
\* false; after jumpToStart the cursor is 0 and after jumpToEnd it is last
PausedAndPlaced(last) ==
    /\ (lastOp'.op \in {"stepForward", "stepBackward", "jumpToStart", "jumpToEnd"}
            => ~playing')
    /\ (lastOp'.op = "jumpToStart" => frameIndex' = 0)
    /\ (lastOp'.op = "jumpToEnd" => frameIndex' = last)

\* C25 as stated: after stepForward(n), stepBackward(n), jumpToStart() or
\* jumpToEnd(), playing = false whatever it was; jumpToStart sets the
\* cursor to 0 and jumpToEnd to frames.length - 1.  Refuted on a document
\* without frames: C25_PauseAndJumpAsStated is violated.
C25_PauseAndJumpAsStated == [][PausedAndPlaced(NFrames - 1)]_vars

\* C25, amended: after stepForward(n), stepBackward(n), jumpToStart() or
\* jumpToEnd(), playing = false whatever it was; jumpToStart sets the
\* cursor to 0 and jumpToEnd to max(0, frames.length - 1).
C25_PauseAndJump == [][PausedAndPlaced(Max(0, NFrames - 1))]_vars

\* C25: jumpToEnd() was invoked while playing, in a document of several
\* frames: playback is stopped with no timer left and the cursor is on the
\* last frame
C25_JumpedToEndWhilePlaying ==
    /\ Mounted /\ NFrames > 1
    /\ lastOp = Op("jumpToEnd", 1)
    /\ ~playing /\ timers = {}
    /\ frameIndex = NFrames - 1

\* C26: in every state, for every index (in range or not), jumpTo(index)
\* changes at most the cursor: playing, wpm and all the rest are as before;
\* and a step of jumpTo leaves wpm as it was, and playing as it was unless
\* the move changed the active section (where the App pauses, see C8).
C26_JumpToOnlyMovesCursor ==
    /\ [](Mounted =>
            \A index \in -1..NFrames :
                jumpTo(World, index)
                    = [World EXCEPT !.frameIndex = jumpTo(World, index).frameIndex])
    /\ [][lastOp'.op = "jumpTo" =>
            /\ wpm' = wpm
            /\ playing' = playing \/ activeSectionId' # activeSectionId]_vars

\* C26: after jumpTo to a frame beyond the first, taken as asked, playback
\* is still running with its timer armed
C26_JumpedWhilePlaying ==
    /\ Mounted /\ NFrames > 1
    /\ lastOp.op = "jumpTo"
    /\ lastOp.arg > 0 /\ frameIndex = lastOp.arg
    /\ playing /\ timer # {}

\* C27: in every state, while playing on a frame one advance is pending,
\* and the advance that is pending has the delay
\* (60000 / wpm) * frames[frameIndex].pauseMultiplier of the present cursor
\* and the present speed (as the fraction 60000 * multiplier / (wpm * 100),
\* the multiplier being in hundredths): after an advance or a change of
\* speed the delay of the pending advance is that of the new frame and the
\* new speed.
C27_DelayOfPresentFrame ==
    Mounted =>
        /\ (playing /\ NFrames > 0) => Cardinality(timers) = 1
        /\ \A t \in timers :
              /\ t.delay.num = 60000 * ctx.frames[frameIndex + 1].pauseMultiplier
              /\ t.delay.den = wpm * 100

\* C27: the speed was changed during playback, an advance then moved the
\* cursor to a frame with multiplier 2.5, and the advance pending now has
\* the delay of that frame at the new speed
C27_RecomputedAfterAdvance ==
    /\ Mounted
    /\ lastOp.op = "timer"
    /\ playing
    /\ wpm # DEFAULT_WPM
    /\ ctx.frames[frameIndex + 1].pauseMultiplier = 250
    /\ timers = {[frameIndex |-> frameIndex, wpm |-> wpm,
                  delay |-> [num |-> 60000 * 250, den |-> wpm * 100]]}

\* the position of the active section in flatSections
ActivePosition == CHOOSE k \in 1..Len(ctx.flatSections) : ctx.flatSections[k] = activeSectionId

\* the section ids that are not in flatSections: none, one beyond the last
\* created, and the preamble when it was dropped
UnknownSectionIds == ({NoSection} \cup 0..Len(ctx.arena)) \ Range(ctx.flatSections)

\* jumpToSection(sectionId) makes sectionId active and returns its
\* frameStart, or 0 when it has no frames
JumpsToSection(sectionId) ==
    /\ jumpToSection(World, sectionId).activeSectionId = sectionId
    /\ jumpToSectionResult(sectionId) =
          (IF Sec(ctx, sectionId).frameStart < 0 THEN 0
           ELSE Sec(ctx, sectionId).frameStart)

\* C28: in every state whose active section is in flatSections,
\* nextSection() / prevSection() go to the section one position later /
\* earlier in flatSections, to the last / first itself at the ends, make
\* it active and return its frameStart, or 0 when it has no frames;
\* jumpToSection(id) with an id that is not in flatSections returns 0 and
\* changes nothing.  The steps of the j and k keys go to that section, and
\* end with it active unless the jump that follows moved the cursor.
C28_SectionNavigation ==
    /\ [](Mounted =>
            /\ activeSectionId \in Range(ctx.flatSections) =>
                  /\ nextSectionTarget(World) =
                        ctx.flatSections[Min(ActivePosition + 1, Len(ctx.flatSections))]
                  /\ prevSectionTarget(World) =
                        ctx.flatSections[Max(ActivePosition - 1, 1)]
                  /\ JumpsToSection(nextSectionTarget(World))
                  /\ JumpsToSection(prevSectionTarget(World))
            /\ \A id \in UnknownSectionIds :
                  /\ jumpToSection(World, id) = World
                  /\ jumpToSectionResult(id) = 0)
    /\ [][(lastOp'.op = "nextSection" /\ activeSectionId \in Range(ctx.flatSections))
            => /\ lastOp'.arg =
                     ctx.flatSections[Min(ActivePosition + 1, Len(ctx.flatSections))]
               /\ activeSectionId' = lastOp'.arg \/ frameIndex' # frameIndex]_vars
    /\ [][(lastOp'.op = "prevSection" /\ activeSectionId \in Range(ctx.flatSections))
            => /\ lastOp'.arg = ctx.flatSections[Max(ActivePosition - 1, 1)]
               /\ activeSectionId' = lastOp'.arg \/ frameIndex' # frameIndex]_vars

\* C28: nextSection() has made the last of several sections active, and
\* the cursor is on the frame it returned
C28_AtLastSection ==
    /\ Mounted
    /\ Len(ctx.flatSections) >= 2
    /\ lastOp = Op("nextSection", Last(ctx.flatSections))
    /\ activeSectionId = Last(ctx.flatSections)
    /\ Sec(ctx, activeSectionId).frameStart > 0
    /\ frameIndex >= Sec(ctx, activeSectionId).frameStart

\* the one-based positions of the frames of block blockId
FramesOfBlock(blockId) ==
    {i \in 1..Len(ctx.frames) : ctx.frames[i].blockId = blockId}

\* C29: a step that walks a paragraph or a heading and emits frames leaves
\* its last frame with pauseMultiplier >= 2.5; a step that walks a
\* horizontal rule adds no frame and, if there is a frame, leaves the last
\* one with pauseMultiplier >= 3.0; no step lowers the multiplier of a
\* frame; so in every state, built documents included, the last frame of
\* every heading block has >= 2.5 and the frame before every horizontal
\* rule has >= 3.0.
C29_BoundaryFloors ==
    /\ [][(lastOp'.op \in {"paragraph", "heading"}
              /\ Len(ctx'.frames) > Len(ctx.frames))
            => Last(ctx'.frames).pauseMultiplier >= 250]_vars
    /\ [][lastOp'.op = "hr" =>
            /\ Len(ctx'.frames) = Len(ctx.frames)
            /\ Last(ctx'.blocks).type = "hr"
            /\ Len(ctx.frames) > 0 => Last(ctx'.frames).pauseMultiplier >= 300]_vars
    /\ [][phase = "walk" =>
            \A i \in 1..Len(ctx.frames) :
                ctx'.frames[i].pauseMultiplier >= ctx.frames[i].pauseMultiplier]_vars
    /\ [](phase \in {"walk", "finalized"} =>
            \A k \in 1..Len(ctx.blocks) :
                /\ (ctx.blocks[k].type = "heading"
                      /\ FramesOfBlock(ctx.blocks[k].id) # {})
                    => ctx.frames[SetMax(FramesOfBlock(ctx.blocks[k].id))]
                           .pauseMultiplier >= 250
                /\ ctx.blocks[k].type = "hr" =>
                      /\ FramesOfBlock(ctx.blocks[k].id) = {}
                      /\ ctx.blocks[k].frameStart > 0
                           => ctx.frames[ctx.blocks[k].frameStart]
                                  .pauseMultiplier >= 300)

\* C29: a built document in which a horizontal rule follows a paragraph,
\* whose last frame has 3.0, and a heading follows, whose last frame has
\* 2.5
C29_RuleAfterParagraph ==
    /\ phase = "finalized"
    /\ Len(ctx.blocks) = 3
    /\ ctx.blocks[1].type = "prose"
    /\ ctx.blocks[2].type = "hr"
    /\ ctx.blocks[3].type = "heading"
    /\ ctx.blocks[2].frameStart > 0
    /\ ctx.frames[ctx.blocks[2].frameStart].blockId = ctx.blocks[1].id
    /\ ctx.frames[ctx.blocks[2].frameStart].pauseMultiplier = 300
    /\ Len(ctx.frames) > ctx.blocks[2].frameStart
    /\ Last(ctx.frames).heading
    /\ Last(ctx.frames).pauseMultiplier = 250

\* the multiplier addFrame gives a frame when it creates it outside an
\* end of paragraph
CreatedPause(f) == computePauseMultiplier(f.word, f.heading, f.inlineCode, FALSE)

\* C30: a step of the parse (one top-level token) leaves every frame but
\* the most recently appended one exactly as it was; of that one it
\* changes the pauseMultiplier at most, and only upwards; whatever else it
\* does to frames is appending.  In every state every frame's
\* pauseMultiplier is >= 1.0 and >= the value it was created with.
C30_MutationDiscipline ==
    /\ [][/\ Len(ctx'.frames) >= Len(ctx.frames)
          /\ \A i \in 1..(Len(ctx.frames) - 1) : ctx'.frames[i] = ctx.frames[i]
          /\ Len(ctx.frames) > 0 =>
                /\ [ctx'.frames[Len(ctx.frames)] EXCEPT
                       !.pauseMultiplier = Last(ctx.frames).pauseMultiplier]
                     = Last(ctx.frames)
                /\ ctx'.frames[Len(ctx.frames)].pauseMultiplier
                     >= Last(ctx.frames).pauseMultiplier]_vars
    /\ [](phase \in {"walk", "finalized"} =>
            \A i \in 1..Len(ctx.frames) :
                /\ ctx.frames[i].pauseMultiplier >= 100
                /\ ctx.frames[i].pauseMultiplier >= CreatedPause(ctx.frames[i]))

\* C30: a paragraph whose first word was raised by a line break, then a
\* horizontal rule that raised the paragraph's last frame, already at 2.5,
\* to 3.0
C30_RaisedTwice ==
    /\ phase = "walk"
    /\ lastOp.op = "hr"
    /\ Len(ctx.frames) = 2
    /\ CreatedPause(ctx.frames[1]) = 100
    /\ ctx.frames[1].pauseMultiplier = 200
    /\ CreatedPause(ctx.frames[2]) = 200
    /\ ctx.frames[2].pauseMultiplier = 300

\* a block was parsed before the first heading: the first block of the
\* document is not a heading's
BlockBeforeFirstHeading == Len(ctx.blocks) > 0 /\ ctx.blocks[1].type # "heading"

\* C31: in a built document the preamble section (id 0, level 0) is in
\* sections, and in flatSections, iff a block was parsed before the first
\* heading; when present it is the first entry of both; and flatSections
\* is in strictly increasing id order.
C31_PreambleHandling ==
    phase = "finalized" =>
        /\ Sec(ctx, ctx.preambleSection).level = 0
        /\ ctx.preambleSection \in Range(ctx.sections) <=> BlockBeforeFirstHeading
        /\ ctx.preambleSection \in Range(ctx.flatSections) <=> BlockBeforeFirstHeading
        /\ BlockBeforeFirstHeading =>
              /\ ctx.sections[1] = ctx.preambleSection
              /\ ctx.flatSections[1] = ctx.preambleSection
        /\ \A i \in 1..(Len(ctx.flatSections) - 1) :
              ctx.flatSections[i] < ctx.flatSections[i + 1]

\* C31: a built document with a block before its first heading: the
\* preamble comes first, the heading's section after it
C31_PreambleKept ==
    /\ phase = "finalized"
    /\ BlockBeforeFirstHeading
    /\ Len(ctx.sections) >= 2
    /\ ctx.sections[1] = ctx.preambleSection
    /\ Len(ctx.flatSections) >= 2
    /\ ctx.flatSections[1] = ctx.preambleSection

\* C32: right after construction, in a document with a frame that is not
\* a heading, the cursor is on the first such frame: its frame is not a
\* heading and every frame before it is.
C32_InitialCursor ==
    (Mounted /\ lastOp.op = "mount" /\ HasContent) =>
        /\ HasFrame(frameIndex)
        /\ ~IsHeading(frameIndex)
        /\ \A j \in 0..(frameIndex - 1) : IsHeading(j)
        /\ frameIndex = initialFrameIndex(0)

\* C32: the application has just been constructed on a document that
\* starts with two headings, and the cursor is on the third frame
C32_SkippedLeadingHeadings ==
    /\ Mounted /\ lastOp.op = "mount"
    /\ IsHeading(0) /\ IsHeading(1)
    /\ frameIndex = 2
    /\ ~IsHeading(2)

\* useDocument's activeVisualBlock: the block of the active section the
\* pane displays
activeVisualBlock ==
    LET sectionVisualBlocks ==
            visualBlocksForSection(collectVisualBlocks, activeSectionId)
    IN  IF Len(sectionVisualBlocks) = 0 THEN NoBlock
        ELSE sectionVisualBlocks[
                 Min(activeVisualBlockIndex, Len(sectionVisualBlocks) - 1) + 1]

\* C33: with no block pinned, a step that changes the cursor ends with
\* the pane displaying the look-ahead block of the new cursor position.
\* Refuted: C33_LookAheadTracking is violated.
C33_LookAheadTracking ==
    [][(frameIndex' # frameIndex /\ ~pinned /\ ~pinned')
        => activeVisualBlock' = relevantVisualBlock(collectVisualBlocks, frameIndex)']_vars

\* C34: started with autoPlay on a document with a frame, the application
\* is playing once the start-up effects have settled.  Refuted:
\* C34_AutoPlayStarts is violated.
C34_AutoPlayStarts ==
    (Mounted /\ lastOp = Op("mount", 1) /\ NFrames > 0) => playing

\* C35: in every settled state of the application on a document with
\* frames, the active section is the section of the frame at the cursor.
\* Refuted: C35_CursorSectionConsistency is violated.
C35_CursorSectionConsistency ==
    (Mounted /\ HasFrame(frameIndex)) =>
        activeSectionId = ctx.frames[frameIndex + 1].sectionId

\* C36: in every state of the builder and in the built document, block
\* frameStart values are non-decreasing in block id order, and for two
\* frames of one section the index, among the section's visual blocks, of
\* the block relevantVisualBlock picks for the later frame is not below
\* the index for the earlier one.
C36_LookAheadMonotone ==
    phase \in {"walk", "finalized"} =>
        /\ \A k \in 1..(Len(ctx.blocks) - 1) :
              /\ ctx.blocks[k].id < ctx.blocks[k + 1].id
              /\ ctx.blocks[k].frameStart <= ctx.blocks[k + 1].frameStart
        /\ \A f, g \in 0..(Len(ctx.frames) - 1) :
              (f < g /\ ctx.frames[f + 1].sectionId = ctx.frames[g + 1].sectionId)
              => lookAheadIndex(f) <= lookAheadIndex(g)

\* C36: a built document with two frames of one section for which the
\* look-ahead picks the section's first and then its second visual block
C36_LookAheadAdvances ==
    /\ phase = "finalized"
    /\ \E f, g \in 0..(Len(ctx.frames) - 1) :
          /\ f < g
          /\ ctx.frames[f + 1].sectionId = ctx.frames[g + 1].sectionId
          /\ lookAheadIndex(f) = 0
          /\ lookAheadIndex(g) = 1

\* C37: in every settled state of the application whose active section has
\* k >= 1 visual blocks, 0 <= activeVisualBlockIndex <= k - 1.
\* Refuted: C37_IndexInRange is violated.
C37_IndexInRange ==
    LET k == Len(visualBlocksForSection(collectVisualBlocks, activeSectionId))
    IN  (Mounted /\ k >= 1) =>
            (0 <= activeVisualBlockIndex /\ activeVisualBlockIndex <= k - 1)

\* C38: togglePin() leaves the active section and the active visual block
\* index as they were, when pinning and when unpinning.
\* Refuted: C38_TogglePinOnlyPins is violated.
C38_TogglePinOnlyPins ==
    [][lastOp'.op = "togglePin"
        => /\ pinned' = ~pinned
           /\ activeSectionId' = activeSectionId
           /\ activeVisualBlockIndex' = activeVisualBlockIndex]_vars

\* C39: in a document with at least one non-heading frame, the frame at
\* the cursor after jumpToStart(), after jumpToEnd(), and after a play() or
\* a starting togglePlay() called with the cursor on the last frame, is not
\* a heading.  Refuted: C39_RestartAndEndsSkipHeadings is violated.
C39_RestartAndEndsSkipHeadings ==
    [][(/\ HasContent
        /\ \/ lastOp'.op \in {"jumpToStart", "jumpToEnd"}
           \/ lastOp'.op = "play" /\ frameIndex >= NFrames - 1
           \/ lastOp'.op = "togglePlay" /\ ~playing /\ frameIndex >= NFrames - 1)
        => ~IsHeading(frameIndex')]_vars

====
